---- MODULE Spec2Model ----
(***************************************************************************)
(* Model of the lenient JSON library (crate `json`): the byte tokenizer    *)
(* (src/src/tokener.rs), the value model (json_value.rs, json_object.rs,   *)
(* json_array.rs) and the text builder.                                    *)
(*                                                                         *)
(* Text is a sequence of UTF-8 bytes (0..255), exactly what the tokenizer  *)
(* walks; a Rust String is kept as its byte sequence.  A cursor `pos` is   *)
(* 0-based as in the code, so self.bytes[p] is bytes[p + 1] here.          *)
(***************************************************************************)
EXTENDS Integers, Sequences, FiniteSets, TLC

VARIABLES
    build,    \* build profile: "debug" (overflow checks panic) or "release" (wrap)
    src,      \* "text": the run parses a given text; "tree": it renders a tree first;
              \* "value": it calls conversions and accessors on a value;
              \* "object": it calls the mutators of a JsonObject
    tree,     \* the value tree handed to the builder, the accessors or the
              \* mutators (VNull when src = "text")
    cfg,      \* BuildConfig of the renderings: [pretty, indent]
    text,     \* the text handed to parse
    phase,    \* "tree", "text", "parse", "parsed", "end"; "api" when src is
              \* "value" or "object"
    bytes,    \* JsonTokener.bytes
    pos,      \* JsonTokener.pos
    len,      \* JsonTokener.len
    stack,    \* activations of read_object / read_array, innermost last
    mode,     \* "idle", "value" (next_value is called), "frame" (inside the top
              \* activation), "ret" (next_value returned Ok), "done", "err", "panic"
    ret,      \* value returned by the last completed next_value
    err,      \* ErrorKind of the failed parse ("" while none)
    entry,    \* cursor on entry of the last next_value called or returned
    text2,    \* the parsed value rendered again
    calls,    \* the HashMap calls made on the object so far, oldest first
    out       \* the last conversion, accessor or helper called, and its result

vars == <<build, src, tree, cfg, text, phase, bytes, pos, len, stack, mode, ret,
          err, entry, text2, calls, out>>

(***************************************************************************)
(* Character codes of the char literals the code compares against.         *)
(***************************************************************************)
BS == 8
TAB == 9
LF == 10
FF == 12
CR == 13
SPACE == 32
DQUOTE == 34
HASH == 35
SQUOTE == 39
STAR == 42
PLUS == 43
COMMA == 44
MINUS == 45
DOT == 46
SLASH == 47
ZERO == 48
COLON == 58
SEMI == 59
EQ == 61
GT == 62
UPPER_X == 88
LBRACKET == 91
BACKSLASH == 92
RBRACKET == 93
LBRACE == 123
LOWER_X == 120
PIPE == 124
RBRACE == 125

(***************************************************************************)
(* Generic sequence helpers.                                               *)
(***************************************************************************)
RECURSIVE Flatten(_)
Flatten(ss) == IF ss = <<>> THEN <<>> ELSE Head(ss) \o Flatten(Tail(ss))

\* &bytes[start..end] (0-based, end exclusive)
Slice(s, start, end) == [i \in 1..(end - start) |-> s[start + i]]

StartsWith(s, p) == Len(s) >= Len(p) /\ Slice(s, 0, Len(p)) = p

Contains(s, c) == \E i \in 1..Len(s) : s[i] = c

\* u8::to_ascii_lowercase
ToLower(b) == IF b >= 65 /\ b <= 90 THEN b + 32 ELSE b

\* str::eq_ignore_ascii_case
eq_ignore_ascii_case(a, b) ==
    Len(a) = Len(b) /\ \A i \in 1..Len(a) : ToLower(a[i]) = ToLower(b[i])

RECURSIVE BitOr(_, _)
BitOr(a, b) ==
    IF a = 0 THEN b
    ELSE IF b = 0 THEN a
    ELSE (IF a % 2 = 1 \/ b % 2 = 1 THEN 1 ELSE 0) + 2 * BitOr(a \div 2, b \div 2)

(***************************************************************************)
(* utils.rs: UTF-8 helpers.                                                *)
(***************************************************************************)
CONT_MASK == 63

\* (byte & (0x7F >> width)) as u32
utf8_first_byte(byte, width) ==
    byte % (IF width = 2 THEN 32 ELSE IF width = 3 THEN 16 ELSE 8)

\* (ch << 6) | (byte & CONT_MASK)
utf8_acc_cont_byte(ch, byte) == ch * 64 + (byte % (CONT_MASK + 1))

\* String::push(char): the UTF-8 encoding of a scalar value
Utf8Encode(cp) ==
    IF cp < 128 THEN <<cp>>
    ELSE IF cp < 2048 THEN <<192 + (cp \div 64), 128 + (cp % 64)>>
    ELSE IF cp < 65536 THEN
        <<224 + (cp \div 4096), 128 + ((cp \div 64) % 64), 128 + (cp % 64)>>
    ELSE <<240 + (cp \div 262144), 128 + ((cp \div 4096) % 64),
           128 + ((cp \div 64) % 64), 128 + (cp % 64)>>

IsCont(b) == b >= 128 /\ b <= 191

\* number of bytes the lead byte b announces (0: b cannot start a character)
Utf8Width(b) ==
    IF b < 128 THEN 1
    ELSE IF b >= 194 /\ b <= 223 THEN 2
    ELSE IF b >= 224 /\ b <= 239 THEN 3
    ELSE IF b >= 240 /\ b <= 244 THEN 4
    ELSE 0

REPLACEMENT == <<239, 191, 189>>

\* String::from_utf8_lossy(slice).into_owned() for a slice of a valid UTF-8
\* text: whole characters are kept, a stray continuation byte and a
\* truncated character each become U+FFFD.
RECURSIVE from_utf8_lossy(_)
from_utf8_lossy(s) ==
    IF s = <<>> THEN <<>>
    ELSE LET w == Utf8Width(s[1]) IN
        IF w = 0 THEN REPLACEMENT \o from_utf8_lossy(Tail(s))
        ELSE IF w <= Len(s) THEN Slice(s, 0, w) \o from_utf8_lossy(Slice(s, w, Len(s)))
        ELSE REPLACEMENT

\* The printable ASCII characters in code order, from 32 (space) to 126.
AsciiTable ==
    <<
     " ", "!", "\"", "#", "$", "%", "&", "'", "(", ")", "*", "+",
     ",", "-", ".", "/", "0", "1", "2", "3", "4", "5", "6", "7",
     "8", "9", ":", ";", "<", "=", ">", "?", "@", "A", "B", "C",
     "D", "E", "F", "G", "H", "I", "J", "K", "L", "M", "N", "O",
     "P", "Q", "R", "S", "T", "U", "V", "W", "X", "Y", "Z", "[",
     "\\", "]", "^", "_", "U+0060", "a", "b", "c", "d", "e", "f", "g",
     "h", "i", "j", "k", "l", "m", "n", "o", "p", "q", "r", "s",
     "t", "u", "v", "w", "x", "y", "z", "{", "|", "}", "~">>

\* code point of a character written as a one-character string; the
\* control characters and the non-ASCII characters go by name
Code(c) ==
    CASE c = "\t" -> TAB
      [] c = "\n" -> LF
      [] c = "\r" -> CR
      [] c = "U+00E9" -> 233
      [] c = "U+20AC" -> 8364
      [] c = "U+FEFF" -> 65279
      [] c = "U+1F601" -> 128513
      [] OTHER -> 31 + (CHOOSE i \in 1..Len(AsciiTable) : AsciiTable[i] = c)

\* the UTF-8 bytes of a text written as a sequence of characters
Str(s) == Flatten([i \in 1..Len(s) |-> Utf8Encode(Code(s[i]))])

str_null == Str(<<"n", "u", "l", "l">>)
str_true == Str(<<"t", "r", "u", "e">>)
str_false == Str(<<"f", "a", "l", "s", "e">>)

(***************************************************************************)
(* json_value.rs: the JsonValue tagged union.  A Float is a finite decimal *)
(* (-1)^neg * mant * 10^exp with mant not divisible by 10 (mant = 0 has    *)
(* exp = 0); for the short decimals of this model that is one f64 each and *)
(* f64::to_string / str::parse::<f64> are exact on them.                   *)
(***************************************************************************)
VNull == [t |-> "Null"]
VBool(b) == [t |-> "Bool", b |-> b]
VInt(i) == [t |-> "Int", i |-> i]
VUint(u) == [t |-> "Uint", u |-> u]
VFloat(neg, mant, exp) == [t |-> "Float", neg |-> neg, mant |-> mant, exp |-> exp]
VString(s) == [t |-> "String", s |-> s]
VObject(m) == [t |-> "Object", map |-> m]
VArray(l) == [t |-> "Array", list |-> l]

\* HashMap::new(): the map is a function from its key set to values
EmptyMap == [k \in {} |-> VNull]

\* a map insert that keeps an existing mapping
insert_keep_first(m, key, value) ==
    [k \in (DOMAIN m) \cup {key} |-> IF k \in DOMAIN m THEN m[k] ELSE value]

\* HashMap::insert (json_object.rs insert): clobbers an existing mapping
insert(m, key, value) ==
    [k \in (DOMAIN m) \cup {key} |-> IF k = key THEN value ELSE m[k]]

\* Vec::push (json_array.rs push)
push(l, value) == Append(l, value)

(***************************************************************************)
(* Number parsing of the Rust standard library, as used by the tokenizer.  *)
(***************************************************************************)
IsDigit(b) == b >= 48 /\ b <= 57

\* char::to_digit(radix): -1 when b is no digit of the radix
to_digit(b, radix) ==
    LET d == IF IsDigit(b) THEN b - 48
             ELSE IF ToLower(b) >= 97 /\ ToLower(b) <= 122 THEN ToLower(b) - 87
             ELSE 99
    IN IF d < radix THEN d ELSE -1

RECURSIVE DigitsValue(_, _)
DigitsValue(s, radix) ==
    IF s = <<>> THEN 0
    ELSE DigitsValue(Slice(s, 0, Len(s) - 1), radix) * radix + to_digit(s[Len(s)], radix)

AllDigits(s, radix) == \A i \in 1..Len(s) : to_digit(s[i], radix) >= 0

\* {integer}::from_str_radix: an optional '+' (and for signed types '-')
\* followed by at least one digit of the radix.  The inputs of this model
\* are far shorter than the 39 digits that overflow 128 bits.
from_str_radix(s, radix, signed) ==
    LET sign == IF s # <<>> /\ s[1] = PLUS THEN 1
                ELSE IF s # <<>> /\ s[1] = MINUS /\ signed THEN -1
                ELSE 0
        digits == IF sign = 0 THEN s ELSE Tail(s)
    IN IF digits = <<>> \/ ~AllDigits(digits, radix) THEN [ok |-> FALSE, val |-> 0]
       ELSE [ok |-> TRUE,
             val |-> (IF sign = -1 THEN -1 ELSE 1) * DigitsValue(digits, radix)]

RECURSIVE StripZeros(_, _)
\* canonical (mant, exp): no trailing decimal zero in mant
StripZeros(mant, exp) ==
    IF mant = 0 THEN <<0, 0>>
    ELSE IF mant % 10 = 0 THEN StripZeros(mant \div 10, exp + 1)
    ELSE <<mant, exp>>

\* index of the first byte of s that is in set cs, Len(s) + 1 when none
FirstIn(s, cs) ==
    IF \E i \in 1..Len(s) : s[i] \in cs
    THEN CHOOSE i \in 1..Len(s) : s[i] \in cs /\ \A j \in 1..(i - 1) : s[j] \notin cs
    ELSE Len(s) + 1

\* str::parse::<f64>: [sign] digits [. digits] [(e|E) [sign] digits] with at
\* least one digit in the mantissa.  ("inf", "nan" and "infinity" hold no
\* '.', so read_literal never passes them.)
parse_f64(s) ==
    LET neg == s # <<>> /\ s[1] = MINUS
        body == IF s # <<>> /\ s[1] \in {PLUS, MINUS} THEN Tail(s) ELSE s
        ei == FirstIn(body, {101, 69})
        man == Slice(body, 0, ei - 1)
        hasExp == ei <= Len(body)
        expo == IF hasExp THEN Slice(body, ei, Len(body)) ELSE <<>>
        di == FirstIn(man, {DOT})
        ip == Slice(man, 0, di - 1)
        fp == IF di <= Len(man) THEN Slice(man, di, Len(man)) ELSE <<>>
        e == from_str_radix(expo, 10, TRUE)
        okMan == AllDigits(ip, 10) /\ AllDigits(fp, 10) /\ Len(ip) + Len(fp) > 0
        okExp == ~hasExp \/ e.ok
        norm == StripZeros(DigitsValue(ip \o fp, 10),
                           (IF hasExp /\ e.ok THEN e.val ELSE 0) - Len(fp))
    IN IF okMan /\ okExp
       THEN [ok |-> TRUE, val |-> VFloat(neg, norm[1], norm[2])]
       ELSE [ok |-> FALSE, val |-> VNull]

(***************************************************************************)
(* tokener.rs: cursor primitives.  Every operator takes the cursor p and   *)
(* returns the new cursor; st = "panic" records a slice index out of       *)
(* bounds or an arithmetic overflow, the other st values are "ok" or the   *)
(* ErrorKind returned.                                                     *)
(***************************************************************************)
InBounds(p) == p >= 0 /\ p < Len(bytes)

ByteAt(p) == bytes[p + 1]

\* (code, byte_count), ok = FALSE when one of the indexings panics
next_code_point(p) ==
    IF ~InBounds(p) THEN [ok |-> FALSE, code |-> 0, size |-> 0]
    ELSE LET x == ByteAt(p) IN
        IF x < 128 THEN [ok |-> TRUE, code |-> x, size |-> 1]
        ELSE IF ~InBounds(p + 1) THEN [ok |-> FALSE, code |-> 0, size |-> 0]
        ELSE LET init == utf8_first_byte(x, 2)
                 y == ByteAt(p + 1)
             IN IF x >= 224
                THEN IF ~InBounds(p + 2) THEN [ok |-> FALSE, code |-> 0, size |-> 0]
                     ELSE LET z == ByteAt(p + 2)
                              y_z == utf8_acc_cont_byte(y % (CONT_MASK + 1), z)
                          IN IF x >= 240
                             THEN IF ~InBounds(p + 3)
                                  THEN [ok |-> FALSE, code |-> 0, size |-> 0]
                                  ELSE [ok |-> TRUE,
                                        code |-> (init % 8) * 262144
                                                 + utf8_acc_cont_byte(y_z, ByteAt(p + 3)),
                                        size |-> 4]
                             ELSE [ok |-> TRUE, code |-> init * 4096 + y_z, size |-> 3]
                ELSE [ok |-> TRUE, code |-> utf8_acc_cont_byte(init, y), size |-> 2]

\* self.pos += byte_count; the char of code
next_from(p, cp) == [ok |-> cp.ok, c |-> cp.code, pos |-> p + cp.size]

next(p) == next_from(p, next_code_point(p))

\* the char of code, the cursor stays
current_from(cp) == [ok |-> cp.ok, c |-> cp.code]

current(p) == current_from(next_code_point(p))

will_eof(p, offset) == p + offset >= len

RECURSIVE BackLoop(_)
BackLoop(p) ==
    IF ~InBounds(p) THEN [ok |-> FALSE, pos |-> p]
    ELSE IF IsCont(ByteAt(p)) THEN BackLoop(p - 1)
    ELSE [ok |-> TRUE, pos |-> p]

\* self.pos -= 1, then skip back over continuation bytes
back(p) == IF p = 0 THEN [ok |-> FALSE, pos |-> p] ELSE BackLoop(p - 1)

\* an advance that leaves the cursor where it is
advance_nowhere(p, offset) == p

\* self.pos += offset
advance(p, offset) == p + offset

\* &self.bytes[start..end] is defined
SliceOk(start, end) == 0 <= start /\ start <= end /\ end <= Len(bytes)

sub_str(start, end) == from_utf8_lossy(Slice(bytes, start, end))

None == -1

\* first index >= from holding one of finds
index_of_any(list, finds, from) ==
    IF list = <<>> \/ finds = {} \/ from > Len(list) - 1 THEN None
    ELSE IF \E i \in from..(Len(list) - 1) : list[i + 1] \in finds
    THEN CHOOSE i \in from..(Len(list) - 1) :
            /\ list[i + 1] \in finds
            /\ \A j \in from..(i - 1) : list[j + 1] \notin finds
    ELSE None

\* does the sequence finds start at index i of list (list.get bounds-checked)
MatchAt(list, finds, i) ==
    \A k \in 1..Len(finds) : i + k <= Len(list) /\ list[i + k] = finds[k]

\* first index >= from where the whole of finds starts
index_of_all(list, finds, from) ==
    IF list = <<>> \/ finds = <<>> \/ from > Len(list) - Len(finds) THEN None
    ELSE IF \E i \in from..(Len(list) - 1) : MatchAt(list, finds, i)
    THEN CHOOSE i \in from..(Len(list) - 1) :
            /\ MatchAt(list, finds, i)
            /\ \A j \in from..(i - 1) : ~MatchAt(list, finds, j)
    ELSE None

\* a skip that ends a line at a newline only
skip_to_newline(p) ==
    LET end_of_line == index_of_any(bytes, {LF}, p)
    IN IF end_of_line # None THEN end_of_line + 1 ELSE len

skip_to_end_of_line(p) ==
    LET end_of_line == index_of_any(bytes, {CR, LF}, p)
    IN IF end_of_line # None THEN end_of_line + 1 ELSE len

CharRes(st, p, c) == [st |-> st, pos |-> p, c |-> c]

RECURSIVE next_clean_internal(_), next_clean_match(_, _), next_clean_slash(_, _)
\* the arm '/' of next_clean_internal: peek is current() at cursor q
next_clean_slash(q, peek) ==
    IF ~peek.ok THEN CharRes("panic", q, 0)
    ELSE IF peek.c = STAR THEN
        LET comment_end == index_of_all(bytes, <<STAR, SLASH>>, advance(q, 1))
        IN IF comment_end = None
           THEN CharRes("SyntaxError", advance(q, 1), 0)
           ELSE next_clean_internal(comment_end + 2)
    ELSE IF peek.c = SLASH
    THEN next_clean_internal(skip_to_end_of_line(advance(q, 1)))
    ELSE CharRes("ok", q, SLASH)

\* match c of next_clean_internal: n is next() read at cursor p
next_clean_match(p, n) ==
    IF ~n.ok THEN CharRes("panic", p, 0)
    ELSE IF n.c \in {TAB, SPACE, LF, CR} THEN next_clean_internal(n.pos)
    ELSE IF n.c = SLASH THEN
        IF will_eof(n.pos, 0) THEN CharRes("ok", n.pos, SLASH)
        ELSE next_clean_slash(n.pos, current(n.pos))
    ELSE IF n.c = HASH THEN next_clean_internal(skip_to_end_of_line(n.pos))
    ELSE CharRes("ok", n.pos, n.c)

\* skip comments and blank char, return the next clean character
next_clean_internal(p) ==
    IF ~(p < len) THEN CharRes("EOF", p, 0)
    ELSE next_clean_match(p, next(p))

\* char::from_u32: a Unicode scalar value
IsScalar(u) == u >= 0 /\ u < 1114112 /\ ~(u >= 55296 /\ u <= 57343)

\* unicode = (((unicode - 0xD800) << 10) | (sub_unicode - 0xDC00)) + 0x10000
\* in u32.  sub_unicode < 0xDC00 underflows: a panic with overflow checks
\* (debug); without them (release) the difference wraps to 0xFFFF0000 +
\* sub_unicode + 0x2400, the | keeps the high half all ones and the final
\* + 0x10000 wraps too, leaving the low 16 bits of the | .
surrogate_combine(unicode, sub_unicode) ==
    IF sub_unicode >= 56320
    THEN [ok |-> TRUE,
          val |-> BitOr((unicode - 55296) * 1024, sub_unicode - 56320) + 65536]
    ELSE IF build = "debug" THEN [ok |-> FALSE, val |-> 0]
    ELSE [ok |-> TRUE,
          val |-> BitOr(((unicode - 55296) * 1024) % 65536, sub_unicode + 9216)]

\* the single-character escapes of strict JSON, which has no \'
simple_escape_strict(ch) ==
    CASE ch = 116 -> TAB
      [] ch = 98 -> BS
      [] ch = 110 -> LF
      [] ch = 114 -> CR
      [] ch = 102 -> FF
      [] ch = DQUOTE -> DQUOTE
      [] ch = BACKSLASH -> BACKSLASH
      [] ch = SLASH -> SLASH
      [] OTHER -> 0

\* the single-character escapes; 0 when ch names none
simple_escape(ch) ==
    CASE ch = 116 -> TAB
      [] ch = 98 -> BS
      [] ch = 110 -> LF
      [] ch = 114 -> CR
      [] ch = 102 -> FF
      [] ch = SQUOTE -> SQUOTE
      [] ch = DQUOTE -> DQUOTE
      [] ch = BACKSLASH -> BACKSLASH
      [] ch = SLASH -> SLASH
      [] OTHER -> 0

\* read_escape_character: char::from_u32 of the combined pair u
escape_pair(p2, u) ==
    IF ~u.ok THEN CharRes("panic", p2, 0)
    ELSE IF IsScalar(u.val) THEN CharRes("ok", p2, u.val)
    ELSE CharRes("CastError", p2, 0)

\* read_escape_character: sub_unicode is the parse of the second \uXXXX
escape_sub_unicode(unicode, p2, sub_unicode) ==
    IF ~sub_unicode.ok THEN CharRes("NumberParseError", p2, 0)
    ELSE escape_pair(p2, surrogate_combine(unicode, sub_unicode.val))

\* read_escape_character: b is next() after the second backslash, read at q
escape_sub_u(unicode, q, b) ==
    IF ~b.ok THEN CharRes("panic", q, 0)
    ELSE IF b.c # 117 THEN CharRes("SyntaxError", b.pos, 0)
    ELSE IF will_eof(b.pos, 3) THEN CharRes("EOF", b.pos, 0)
    ELSE escape_sub_unicode(unicode, advance(b.pos, 4),
                            from_str_radix(sub_str(b.pos, b.pos + 4), 16, FALSE))

\* read_escape_character: a is next() after the first \uXXXX, read at p1
escape_sub_backslash(unicode, p1, a) ==
    IF ~a.ok THEN CharRes("panic", p1, 0)
    ELSE IF a.c # BACKSLASH THEN CharRes("SyntaxError", a.pos, 0)
    ELSE escape_sub_u(unicode, a.pos, next(a.pos))

\* read_escape_character: unicode is the parse of the first \uXXXX
escape_unicode(p1, unicode) ==
    IF ~unicode.ok THEN CharRes("NumberParseError", p1, 0)
    ELSE IF unicode.val >= 55296 THEN escape_sub_backslash(unicode.val, p1, next(p1))
    ELSE IF IsScalar(unicode.val) THEN CharRes("ok", p1, unicode.val)
    ELSE CharRes("CastError", p1, 0)

\* match escaped of read_escape_character: n is next() read at cursor p
escape_match(p, n) ==
    IF ~n.ok THEN CharRes("panic", p, 0)
    ELSE IF n.c = 117 THEN
        IF will_eof(n.pos, 3) THEN CharRes("EOF", n.pos, 0)
        ELSE escape_unicode(advance(n.pos, 4),
                            from_str_radix(sub_str(n.pos, n.pos + 4), 16, FALSE))
    ELSE IF simple_escape(n.c) # 0 THEN CharRes("ok", n.pos, simple_escape(n.c))
    ELSE CharRes("SyntaxError", n.pos, 0)

\* the cursor is just after a backslash
read_escape_character(p) == escape_match(p, next(p))

StrRes(st, p, s) == [st |-> st, pos |-> p, s |-> s]

RECURSIVE next_string_loop(_, _, _, _), next_string_match(_, _, _, _, _),
          next_string_escape(_, _, _)
\* next_string after an escape: e is the result of read_escape_character
next_string_escape(quote, builder, e) ==
    IF e.st # "ok" THEN StrRes(e.st, e.pos, <<>>)
    ELSE next_string_loop(quote, builder \o Utf8Encode(e.c), e.pos, e.pos)

\* the body of the loop of next_string: n is next() read at cursor p
next_string_match(quote, builder, start, p, n) ==
    IF ~n.ok THEN StrRes("panic", p, <<>>)
    ELSE IF n.c = quote THEN
        IF SliceOk(start, n.pos - 1)
        THEN StrRes("ok", n.pos, builder \o sub_str(start, n.pos - 1))
        ELSE StrRes("panic", n.pos, <<>>)
    ELSE IF n.c = CR \/ n.c = LF THEN StrRes("SyntaxError", n.pos, <<>>)
    ELSE IF n.c = BACKSLASH THEN
        IF will_eof(n.pos, 0) THEN StrRes("EOF", n.pos, <<>>)
        ELSE IF ~SliceOk(start, n.pos - 1) THEN StrRes("panic", n.pos, <<>>)
        ELSE next_string_escape(quote, builder \o sub_str(start, n.pos - 1),
                                read_escape_character(n.pos))
    ELSE next_string_loop(quote, builder, start, n.pos)

\* the loop of next_string: builder and start are its locals
next_string_loop(quote, builder, start, p) ==
    IF ~(p < len) THEN StrRes("EOF", p, <<>>)
    ELSE next_string_match(quote, builder, start, p, next(p))

next_string(quote, p) == next_string_loop(quote, <<>>, p, p)

\* the characters that end a value of strict JSON only
LiteralExcluded_strict ==
    {RBRACE, RBRACKET, COMMA, SPACE, TAB}

\* "{}[]/\\:,=;# \t\x0C"
LiteralExcluded ==
    {LBRACE, RBRACE, LBRACKET, RBRACKET, SLASH, BACKSLASH, COLON, COMMA, EQ,
     SEMI, HASH, SPACE, TAB, FF}

RECURSIVE next_to_loop(_, _, _), next_to_match(_, _, _, _)
\* the body of the loop of next_to_internal: ch is current() at cursor p
next_to_match(excluded, start, p, ch) ==
    IF ~ch.ok THEN StrRes("panic", p, <<>>)
    ELSE IF ch.c = CR \/ ch.c = LF \/ ch.c \in excluded
    THEN StrRes("ok", p, sub_str(start, p))
    ELSE next_to_loop(excluded, start, p + 1)

\* the loop of next_to_internal: the cursor moves one BYTE at a time
next_to_loop(excluded, start, p) ==
    IF ~(p < len) THEN StrRes("ok", p, sub_str(start, len))
    ELSE next_to_match(excluded, start, p, current(p))

next_to_internal(excluded, p) == next_to_loop(excluded, p, p)

ValRes(st, p, v) == [st |-> st, pos |-> p, v |-> v]

\* read_literal that knows no octal prefix
literal_radix_no_octal(literal) ==
    IF StartsWith(literal, <<ZERO, LOWER_X>>) \/ StartsWith(literal, <<ZERO, UPPER_X>>)
    THEN [base |-> 16, positive |-> TRUE, number |-> Slice(literal, 2, Len(literal))]
    ELSE [base |-> 10, positive |-> ~StartsWith(literal, <<MINUS>>), number |-> literal]

\* read_literal: the base, the sign flag and the digits chosen for a literal
literal_radix(literal) ==
    IF StartsWith(literal, <<ZERO, LOWER_X>>) \/ StartsWith(literal, <<ZERO, UPPER_X>>)
    THEN [base |-> 16, positive |-> TRUE, number |-> Slice(literal, 2, Len(literal))]
    ELSE IF StartsWith(literal, <<ZERO>>) /\ Len(literal) > 1
    THEN [base |-> 8, positive |-> TRUE, number |-> Slice(literal, 1, Len(literal))]
    ELSE [base |-> 10, positive |-> ~StartsWith(literal, <<MINUS>>), number |-> literal]

\* Ok(JsonValue::Uint(value)) / Ok(JsonValue::Int(value)), `?` on the parse
integer_value(positive, value) ==
    IF ~value.ok THEN [ok |-> FALSE, val |-> VNull]
    ELSE IF positive THEN [ok |-> TRUE, val |-> VUint(value.val)]
    ELSE [ok |-> TRUE, val |-> VInt(value.val)]

\* u128::from_str_radix when positive, i128::from_str_radix otherwise
integer_parse(r) ==
    integer_value(r.positive, from_str_radix(r.number, r.base, ~r.positive))

\* the integer branch of read_literal (the literal holds no '.')
read_integer(literal) == integer_parse(literal_radix(literal))

\* Ok(value) or the NumberParseError of `?`
number_result(p, value) ==
    IF value.ok THEN ValRes("ok", p, value.val)
    ELSE ValRes("NumberParseError", p, VNull)

\* read_literal once next_to_internal has returned l
literal_value(l) ==
    IF l.st # "ok" THEN ValRes(l.st, l.pos, VNull)
    ELSE IF Len(l.s) <= 0 THEN ValRes("SyntaxError", l.pos, VNull)
    ELSE IF eq_ignore_ascii_case(l.s, str_null) THEN ValRes("ok", l.pos, VNull)
    ELSE IF eq_ignore_ascii_case(l.s, str_true) THEN ValRes("ok", l.pos, VBool(TRUE))
    ELSE IF eq_ignore_ascii_case(l.s, str_false) THEN ValRes("ok", l.pos, VBool(FALSE))
    ELSE IF Contains(l.s, DOT) THEN number_result(l.pos, parse_f64(l.s))
    ELSE number_result(l.pos, read_integer(l.s))

\* read a value, eg: true, false, null, number, etc.
read_literal(p) == literal_value(next_to_internal(LiteralExcluded, p))

(***************************************************************************)
(* tokener.rs: the recursive descent next_value / read_object /            *)
(* read_array, one activation record per call on `stack`.                  *)
(***************************************************************************)
BOM == <<239, 187, 191>>

\* JsonTokener::new: the bytes of the text without a leading BOM
new_bytes(str) == IF StartsWith(str, BOM) THEN Slice(str, Len(BOM), Len(str)) ELSE str

Frame(kind, st, e) ==
    [kind |-> kind, st |-> st, map |-> EmptyMap, list |-> <<>>, name |-> <<>>,
     has_trailing_separator |-> FALSE, entry |-> e]

Top == stack[Len(stack)]

Pop == Slice(stack, 0, Len(stack) - 1)

SetTop(f) == [stack EXCEPT ![Len(stack)] = f]

TokVars == <<bytes, len>>
RunVars == <<build, src, tree, cfg, text, text2, calls, out>>

\* `?` and panics leave every activation at once
Fail(st, p) ==
    /\ mode' = IF st = "panic" THEN "panic" ELSE "err"
    /\ err' = IF st = "panic" THEN "" ELSE st
    /\ pos' = p
    /\ stack' = <<>>
    /\ UNCHANGED <<ret, entry, phase>>

\* Ok(v) returned by the next_value that was entered at cursor e
Return(v, p, e, stk) ==
    /\ mode' = "ret"
    /\ ret' = v
    /\ pos' = p
    /\ entry' = e
    /\ stack' = stk
    /\ UNCHANGED <<err, phase>>

\* read_array that forgets the hole of a trailing separator
array_close_no_hole(list, has_trailing_separator) == list

\* read_array on ']' at the head of its loop: a trailing separator leaves a hole
array_close(list, has_trailing_separator) ==
    IF has_trailing_separator THEN push(list, VNull) ELSE list

\* lib.rs parse / JsonObject::create / JsonArray::create: construct the
\* tokenizer over the text and call next_value
Parse ==
    /\ phase = "text"
    /\ phase' = "parse"
    /\ bytes' = new_bytes(text)
    /\ len' = Len(new_bytes(text))
    /\ pos' = 0
    /\ mode' = "value"
    /\ UNCHANGED <<stack, ret, err, entry, RunVars>>

\* next_value up to the call of read_object / read_array, or to the end for
\* a string and a literal
NextValue ==
    /\ phase = "parse" /\ mode = "value"
    /\ \E c \in {next_clean_internal(pos)} :
        IF c.st # "ok" THEN Fail(c.st, c.pos)
        ELSE IF c.c = LBRACE THEN
            /\ stack' = Append(stack, Frame("object", "start", pos))
            /\ mode' = "frame" /\ pos' = c.pos /\ entry' = pos
            /\ UNCHANGED <<ret, err, phase>>
        ELSE IF c.c = LBRACKET THEN
            /\ stack' = Append(stack, Frame("array", "loop", pos))
            /\ mode' = "frame" /\ pos' = c.pos /\ entry' = pos
            /\ UNCHANGED <<ret, err, phase>>
        ELSE IF c.c = SQUOTE \/ c.c = DQUOTE THEN
            \E str \in {next_string(c.c, c.pos)} :
            IF str.st # "ok" THEN Fail(str.st, str.pos)
            ELSE Return(VString(str.s), str.pos, pos, stack)
        ELSE \E b \in {back(c.pos)} :
            IF ~b.ok THEN Fail("panic", c.pos)
            ELSE \E l \in {read_literal(b.pos)} :
                IF l.st # "ok" THEN Fail(l.st, l.pos)
                ELSE Return(l.v, l.pos, pos, stack)
    /\ UNCHANGED <<TokVars, RunVars>>

\* read_object: peek to see if this is the empty object
ReadObjectStart ==
    /\ phase = "parse" /\ mode = "frame"
    /\ Top.kind = "object" /\ Top.st = "start"
    /\ \E c \in {next_clean_internal(pos)} :
        IF c.st # "ok" THEN Fail(c.st, c.pos)
        ELSE IF c.c = RBRACE THEN Return(VObject(Top.map), c.pos, Top.entry, Pop)
        ELSE \E b \in {back(c.pos)} :
            IF ~b.ok THEN Fail("panic", c.pos)
            ELSE /\ stack' = SetTop([Top EXCEPT !.st = "key"])
                 /\ mode' = "value" /\ pos' = b.pos
                 /\ UNCHANGED <<ret, err, entry, phase>>
    /\ UNCHANGED <<TokVars, RunVars>>

\* read_object: the key has been read; the separator, then the value
ReadObjectKey ==
    /\ phase = "parse" /\ mode = "ret"
    /\ stack # <<>> /\ Top.kind = "object" /\ Top.st = "key"
    /\ IF ret.t # "String" THEN Fail("SyntaxError", pos)
       ELSE \E separator \in {next_clean_internal(pos)} :
           IF separator.st # "ok" THEN Fail(separator.st, separator.pos)
           ELSE IF separator.c # COLON /\ separator.c # EQ
           THEN Fail("SyntaxError", separator.pos)
           ELSE IF ~will_eof(separator.pos, 0) /\ ~current(separator.pos).ok
           THEN Fail("panic", separator.pos)
           ELSE /\ pos' = IF ~will_eof(separator.pos, 0)
                             /\ current(separator.pos).c = GT
                          THEN advance(separator.pos, 1)
                          ELSE separator.pos
                /\ stack' = SetTop([Top EXCEPT !.st = "value", !.name = ret.s])
                /\ mode' = "value"
                /\ UNCHANGED <<ret, err, entry, phase>>
    /\ UNCHANGED <<TokVars, RunVars>>

\* read_object: the value has been read; insert it, then '}' or a separator
ReadObjectValue ==
    /\ phase = "parse" /\ mode = "ret"
    /\ stack # <<>> /\ Top.kind = "object" /\ Top.st = "value"
    /\ \E json_object \in {insert(Top.map, Top.name, ret)},
          c \in {next_clean_internal(pos)} :
          IF c.st # "ok" THEN Fail(c.st, c.pos)
          ELSE IF c.c = RBRACE THEN Return(VObject(json_object), c.pos, Top.entry, Pop)
          ELSE IF c.c = SEMI \/ c.c = COMMA THEN
              /\ stack' = SetTop([Top EXCEPT !.st = "key", !.map = json_object])
              /\ mode' = "value" /\ pos' = c.pos
              /\ UNCHANGED <<ret, err, entry, phase>>
          ELSE Fail("SyntaxError", c.pos)
    /\ UNCHANGED <<TokVars, RunVars>>

\* read_array: the head of the loop
ReadArrayLoop ==
    /\ phase = "parse" /\ mode = "frame"
    /\ Top.kind = "array" /\ Top.st = "loop"
    /\ \E c \in {next_clean_internal(pos)} :
        IF c.st # "ok" THEN Fail(c.st, c.pos)
        ELSE IF c.c = RBRACKET THEN
            Return(VArray(array_close(Top.list, Top.has_trailing_separator)),
                   c.pos, Top.entry, Pop)
        ELSE IF c.c = COMMA \/ c.c = SEMI THEN
            /\ stack' = SetTop([Top EXCEPT !.list = push(Top.list, VNull),
                                           !.has_trailing_separator = TRUE])
            /\ pos' = c.pos
            /\ UNCHANGED <<mode, ret, err, entry, phase>>
        ELSE \E b \in {back(c.pos)} :
            IF ~b.ok THEN Fail("panic", c.pos)
            ELSE /\ stack' = SetTop([Top EXCEPT !.st = "element"])
                 /\ mode' = "value" /\ pos' = b.pos
                 /\ UNCHANGED <<ret, err, entry, phase>>
    /\ UNCHANGED <<TokVars, RunVars>>

\* read_array: an element has been read; push it, then ']' or a separator
ReadArrayElement ==
    /\ phase = "parse" /\ mode = "ret"
    /\ stack # <<>> /\ Top.kind = "array" /\ Top.st = "element"
    /\ \E json_array \in {push(Top.list, ret)},
          c \in {next_clean_internal(pos)} :
          IF c.st # "ok" THEN Fail(c.st, c.pos)
          ELSE IF c.c = RBRACKET THEN Return(VArray(json_array), c.pos, Top.entry, Pop)
          ELSE IF c.c = COMMA \/ c.c = SEMI THEN
              /\ stack' = SetTop([Top EXCEPT !.st = "loop", !.list = json_array,
                                             !.has_trailing_separator = TRUE])
              /\ mode' = "frame" /\ pos' = c.pos
              /\ UNCHANGED <<ret, err, entry, phase>>
          ELSE Fail("SyntaxError", c.pos)
    /\ UNCHANGED <<TokVars, RunVars>>

\* the outermost next_value returns Ok to the caller of parse
ParseOk ==
    /\ phase = "parse" /\ mode = "ret" /\ stack = <<>>
    /\ mode' = "done"
    /\ phase' = "parsed"
    /\ UNCHANGED <<pos, stack, ret, err, entry, TokVars, RunVars>>

(***************************************************************************)
(* The builder: JsonBuilder::build of JsonValue, JsonArray and JsonObject. *)
(* A rendering is [ok, s]: ok = FALSE is a panic, s the text pushed.  The  *)
(* object is a HashMap, whose iteration order is any order of its keys, so *)
(* build yields the SET of renderings the program can produce.             *)
(***************************************************************************)
\* an escape that leaves the backslash as it is
escape_char_keep_backslash(ch) ==
    CASE ch = DQUOTE -> <<BACKSLASH, DQUOTE>>
      [] ch = FF -> <<BACKSLASH, 102>>
      [] ch = TAB -> <<BACKSLASH, 116>>
      [] ch = LF -> <<BACKSLASH, 110>>
      [] ch = BS -> <<BACKSLASH, 98>>
      [] ch = CR -> <<BACKSLASH, 114>>
      [] OTHER -> <<ch>>

\* utils.rs replace_escape (all seven characters are ASCII, so the mapping
\* of chars is the mapping of bytes)
escape_char(ch) ==
    CASE ch = BACKSLASH -> <<BACKSLASH, BACKSLASH>>
      [] ch = DQUOTE -> <<BACKSLASH, DQUOTE>>
      [] ch = FF -> <<BACKSLASH, 102>>
      [] ch = TAB -> <<BACKSLASH, 116>>
      [] ch = LF -> <<BACKSLASH, 110>>
      [] ch = BS -> <<BACKSLASH, 98>>
      [] ch = CR -> <<BACKSLASH, 114>>
      [] OTHER -> <<ch>>

replace_escape(str) == Flatten([i \in 1..Len(str) |-> escape_char(str[i])])

RECURSIVE NatToString(_)
NatToString(n) ==
    IF n < 10 THEN <<48 + n>> ELSE NatToString(n \div 10) \o <<48 + (n % 10)>>

\* i128::to_string / u128::to_string
int_to_string(i) == IF i < 0 THEN <<MINUS>> \o NatToString(-i) ELSE NatToString(i)

Zeros(k) == [i \in 1..k |-> 48]

\* f64::to_string: plain decimal notation, never an exponent
f64_to_string(neg, mant, exp) ==
    LET d == NatToString(mant)
        k == -exp
        digits == IF exp >= 0 THEN d \o Zeros(IF mant = 0 THEN 0 ELSE exp)
                  ELSE IF Len(d) > k
                  THEN Slice(d, 0, Len(d) - k) \o <<DOT>> \o Slice(d, Len(d) - k, Len(d))
                  ELSE <<48, DOT>> \o Zeros(k - Len(d)) \o d
    IN (IF neg THEN <<MINUS>> ELSE <<>>) \o digits

\* iter::repeat(indent).take(n).collect()
Indents(indent, n) == Flatten([i \in 1..n |-> indent])

Rendered(s) == [ok |-> TRUE, s |-> s]
Panicked == [ok |-> FALSE, s |-> <<>>]

\* json = b.build(a.build(json)): the pushes of a, then those of b
Then(a, b) == IF a.ok /\ b.ok THEN Rendered(a.s \o b.s) ELSE Panicked

\* the iteration orders of a HashMap with key set K
Orders(K) ==
    {o \in [1..Cardinality(K) -> K] : \A i, j \in 1..Cardinality(K) : o[i] = o[j] => i = j}

\* json_value.rs build, the Bool arm
bool_text(b) == IF b THEN str_false ELSE str_true

\* json_object.rs build: let last = self.map.len() - 1 in usize; the
\* subtraction underflows on the empty map: a panic with overflow checks,
\* usize::MAX (here: more than any index) without
object_last(n) ==
    IF n > 0 THEN [ok |-> TRUE, val |-> n - 1]
    ELSE IF build = "debug" THEN [ok |-> FALSE, val |-> 0]
    ELSE [ok |-> TRUE, val |-> 2147483647]

\* json_array.rs build: let last = if self.is_empty() { 0 } else { self.len() - 1 }
array_last(n) == IF n = 0 THEN 0 ELSE n - 1

\* a prefix that indents an element as deep as its container
element_prefix_flat(c, level) ==
    IF c.pretty THEN <<LF>> \o Indents(c.indent, level) ELSE <<>>

\* the newline and indents pushed before an element
element_prefix(c, level) ==
    IF c.pretty THEN <<LF>> \o Indents(c.indent, level + 1) ELSE <<>>

\* the newline and indents pushed before the closing bracket
closing_prefix(c, level) ==
    IF c.pretty THEN <<LF>> \o (IF level > 0 THEN Indents(c.indent, level) ELSE <<>>)
    ELSE <<>>

RECURSIVE build_value(_, _, _)
RECURSIVE build_array_items(_, _, _, _)
RECURSIVE build_object_items(_, _, _, _, _)

\* the body of the for loop of json_array.rs build, from element `index` on
build_array_items(list, index, level, c) ==
    IF index >= Len(list) THEN {Rendered(<<>>)}
    ELSE {Then(Then(Rendered(element_prefix(c, level)), item),
               Then(Rendered(IF index < array_last(Len(list)) THEN <<COMMA>> ELSE <<>>),
                    rest)) :
            item \in build_value(list[index + 1], level + 1, c),
            rest \in build_array_items(list, index + 1, level, c)}

build_array(list, level, c) ==
    {Then(Then(Rendered(<<LBRACKET>>), items),
          Rendered(closing_prefix(c, level) \o <<RBRACKET>>)) :
        items \in build_array_items(list, 0, level, c)}

\* the body of the for loop of json_object.rs build for iteration order o
build_object_items(map, o, index, level, c) ==
    IF index >= Len(o) THEN {Rendered(<<>>)}
    ELSE {Then(Then(Rendered(element_prefix(c, level)
                             \o <<DQUOTE>> \o replace_escape(o[index + 1])
                             \o <<DQUOTE, COLON>>
                             \o (IF c.pretty THEN <<SPACE>> ELSE <<>>)),
                    item),
               Then(Rendered(IF index < object_last(Len(o)).val THEN <<COMMA>> ELSE <<>>),
                    rest)) :
            item \in build_value(map[o[index + 1]], level + 1, c),
            rest \in build_object_items(map, o, index + 1, level, c)}

build_object(map, level, c) ==
    IF ~object_last(Cardinality(DOMAIN map)).ok THEN {Panicked}
    ELSE UNION {
        {Then(Then(Rendered(<<LBRACE>>), items),
              Rendered(closing_prefix(c, level) \o <<RBRACE>>)) :
            items \in build_object_items(map, o, 0, level, c)} :
        o \in Orders(DOMAIN map)}

build_value(v, level, c) ==
    CASE v.t = "Null" -> {Rendered(str_null)}
      [] v.t = "Bool" -> {Rendered(bool_text(v.b))}
      [] v.t = "Int" -> {Rendered(int_to_string(v.i))}
      [] v.t = "Uint" -> {Rendered(int_to_string(v.u))}
      [] v.t = "Float" -> {Rendered(f64_to_string(v.neg, v.mant, v.exp))}
      [] v.t = "String" -> {Rendered(<<DQUOTE>> \o replace_escape(v.s) \o <<DQUOTE>>)}
      [] v.t = "Array" -> build_array(v.list, level, c)
      [] v.t = "Object" -> build_object(v.map, level, c)

\* ToJson::to_json(cfg)
to_json(v, c) == build_value(v, 0, c)

\* BuildConfig::default() and BuildConfig::pretty(): pretty and indent
\* (colored says which converters the configuration holds: the pretty_ ones
\* or the default_ ones)
BuildConfig_default == [pretty |-> FALSE, indent |-> <<>>, colored |-> FALSE]
BuildConfig_pretty == [pretty |-> TRUE, indent |-> <<PIPE, SPACE>>, colored |-> TRUE]

\* BuildConfig::new(pretty, indent, check_nest, colored)
BuildConfig_new(pretty, indent, check_nest, colored) ==
    [pretty |-> pretty, indent |-> indent, colored |-> colored]

(***************************************************************************)
(* lib.rs: the converters a BuildConfig holds.  No build function of       *)
(* json_value.rs, json_array.rs or json_object.rs calls them.              *)
(***************************************************************************)
ESC == 27

\* colored's Display of a styled string: ESC [ codes m, the text, ESC [ 0 m
Styled(codes, s) == <<ESC, LBRACKET>> \o codes \o <<109>> \o s \o <<ESC, LBRACKET, ZERO, 109>>

default_value_convert(json, s) == s

default_key_convert(key) == key

default_control_convert(ctl) == <<ctl>>

pretty_value_convert(json, s) ==
    IF json.t \in {"Null", "Bool"} THEN Styled(<<49, SEMI, 51, 48>>, s)
    ELSE IF json.t \in {"Int", "Uint", "Float"} THEN Styled(<<49, SEMI, 51, 54>>, s)
    ELSE IF json.t = "String" THEN Styled(<<51, 49>>, s)
    ELSE s

pretty_key_convert(key) == Styled(<<49, SEMI, 51, 50>>, key)

pretty_control_convert(ctl) ==
    IF ctl \in {LBRACKET, RBRACKET, LBRACE, RBRACE} THEN Styled(<<49, SEMI, 51, 49>>, <<ctl>>)
    ELSE IF ctl \in {DQUOTE, COMMA, COLON}
    THEN Styled(<<49, SEMI, 51, 56, SEMI, 50, SEMI, 49, 50, 56, SEMI, 49, 50, 56,
                  SEMI, 49, 50, 56>>, <<ctl>>)
    ELSE Styled(<<51, 48>>, <<ctl>>)

\* the three boxed closures of a configuration
value_converter(c, json, s) ==
    IF c.colored THEN pretty_value_convert(json, s) ELSE default_value_convert(json, s)

key_converter(c, key) ==
    IF c.colored THEN pretty_key_convert(key) ELSE default_key_convert(key)

control_converter(c, ctl) ==
    IF c.colored THEN pretty_control_convert(ctl) ELSE default_control_convert(ctl)

(***************************************************************************)
(* json_value.rs: conversions from native types.                           *)
(***************************************************************************)
\* From<i8> .. From<i128>
from_signed(value) == IF value > 0 THEN VUint(value) ELSE VInt(value)

\* From<u8> .. From<u128>
from_unsigned(value) == VUint(value)

\* From<bool>
from_bool(v) == VBool(v)

\* From<&str>, From<String>
from_str(v) == VString(v)

\* From<f64>
from_f64(neg, mant, exp) == VFloat(neg, mant, exp)

(***************************************************************************)
(* Rendering a tree before the parse, and the parsed value after it.       *)
(***************************************************************************)
\* value.to_json(cfg) on the tree; the text is then handed to parse
Build ==
    /\ phase = "tree"
    /\ \E r \in to_json(tree, cfg) :
        IF r.ok THEN /\ text' = r.s /\ phase' = "text" /\ UNCHANGED mode
        ELSE /\ mode' = "panic" /\ UNCHANGED <<text, phase>>
    /\ UNCHANGED <<build, src, tree, cfg, bytes, pos, len, stack, ret, err, entry, text2, calls, out>>

\* parsed.to_json(cfg) on the value parse returned
Rebuild ==
    /\ phase = "parsed" /\ mode = "done"
    /\ \E r \in to_json(ret, cfg) :
        IF r.ok THEN /\ text2' = r.s /\ phase' = "end" /\ UNCHANGED mode
        ELSE /\ mode' = "panic" /\ UNCHANGED <<text2, phase>>
    /\ UNCHANGED <<build, src, tree, cfg, text, bytes, pos, len, stack, ret, err, entry, calls, out>>

(***************************************************************************)
(* json_value.rs: the accessors.  Result<T> is [ok, val, err] and          *)
(* Option<T> is [some, val].                                               *)
(***************************************************************************)
Ok(x) == [ok |-> TRUE, val |-> x, err |-> ""]

Err(kind) == [ok |-> FALSE, val |-> VNull, err |-> kind]

Some(x) == [some |-> TRUE, val |-> x]

NoneValue == [some |-> FALSE, val |-> VNull]

\* Result::ok
Result_ok(r) == IF r.ok THEN Some(r.val) ELSE NoneValue

\* the widths of i8 .. i128 and u8 .. u128
Widths == {8, 16, 32, 64, 128}

RECURSIVE Pow2(_)
Pow2(w) == IF w = 0 THEN 1 ELSE 2 * Pow2(w - 1)

\* a cast that clamps to the range of the target type instead of truncating
as_cast_saturating(value, w, signed) ==
    IF w \in {32, 64, 128} THEN value
    ELSE IF signed THEN
        IF value >= Pow2(w - 1) THEN Pow2(w - 1) - 1
        ELSE IF value < 0 - Pow2(w - 1) THEN 0 - Pow2(w - 1)
        ELSE value
    ELSE IF value >= Pow2(w) THEN Pow2(w) - 1
    ELSE IF value < 0 THEN 0
    ELSE value

\* `*value as iN` / `*value as uN`: the low w bits of the two's complement
\* of value, read in the target type.  Every integer of this model lies in
\* -2^31 .. 2^31 - 1, where the casts to 32 bits and more change nothing
\* (an unsigned target is only ever cast from a value >= 0).
as_cast(value, w, signed) ==
    IF w \in {32, 64, 128} THEN value
    ELSE IF signed /\ value % Pow2(w) >= Pow2(w - 1) THEN (value % Pow2(w)) - Pow2(w)
    ELSE value % Pow2(w)

\* as_bool that compares the string with "true" / "false" case by case
as_bool_case_sensitive(v) ==
    CASE v.t = "Null" -> Err("ValueNull")
      [] v.t = "Bool" -> Ok(v.b)
      [] v.t = "String" ->
            IF v.s = str_true THEN Ok(TRUE)
            ELSE IF v.s = str_false THEN Ok(FALSE)
            ELSE Err("TypeNotMatch")
      [] OTHER -> Err("TypeNotMatch")

\* as_bool
as_bool(v) ==
    CASE v.t = "Null" -> Err("ValueNull")
      [] v.t = "Bool" -> Ok(v.b)
      [] v.t = "String" ->
            IF eq_ignore_ascii_case(v.s, str_true) THEN Ok(TRUE)
            ELSE IF eq_ignore_ascii_case(v.s, str_false) THEN Ok(FALSE)
            ELSE Err("TypeNotMatch")
      [] OTHER -> Err("TypeNotMatch")

\* as_i8 .. as_i128
as_i(v, w) ==
    CASE v.t = "Null" -> Err("ValueNull")
      [] v.t = "Uint" -> Ok(as_cast(v.u, w, TRUE))
      [] v.t = "Int" -> Ok(as_cast(v.i, w, TRUE))
      [] OTHER -> Err("TypeNotMatch")

\* as_u8 .. as_u128
as_u(v, w) ==
    CASE v.t = "Null" -> Err("ValueNull")
      [] v.t = "Uint" -> Ok(as_cast(v.u, w, FALSE))
      [] v.t = "Int" ->
            IF v.i > 0 THEN Ok(as_cast(v.i, w, FALSE))
            ELSE Err("TypeNotMatch")
      [] OTHER -> Err("TypeNotMatch")

\* the decimal mant * 10^exp with the factors 10 of mant moved to exp
RECURSIVE Normalize(_, _, _)
Normalize(neg, mant, exp) ==
    IF mant = 0 THEN [neg |-> neg, mant |-> 0, exp |-> 0]
    ELSE IF mant % 10 = 0 THEN Normalize(neg, mant \div 10, exp + 1)
    ELSE [neg |-> neg, mant |-> mant, exp |-> exp]

\* a native float of w bits
Native(w, d) == [bits |-> w, neg |-> d.neg, mant |-> d.mant, exp |-> d.exp]

\* `*value as f32` / `*value as f64` on an integer: exact below 2^24, as
\* every integer of this model is
int_as_float(value, w) ==
    Native(w, Normalize(value < 0, IF value < 0 THEN 0 - value ELSE value, 0))

\* `*value as f32` on an f64 (`*value` itself for f64): exact on the dyadic
\* fractions this model hands to the accessors
float_as_float(v, w) == Native(w, v)

\* as_f32, as_f64
as_f(v, w) ==
    CASE v.t = "Null" -> Err("ValueNull")
      [] v.t = "Uint" -> Ok(int_as_float(v.u, w))
      [] v.t = "Int" -> Ok(int_as_float(v.i, w))
      [] v.t = "Float" -> Ok(float_as_float(v, w))
      [] OTHER -> Err("TypeNotMatch")

\* as_str, as_mut_str, as_string
as_str(v) ==
    CASE v.t = "Null" -> Err("ValueNull")
      [] v.t = "String" -> Ok(v.s)
      [] OTHER -> Err("TypeNotMatch")

\* as_object_ref, as_object_mut_ref, as_object
as_object(v) ==
    CASE v.t = "Null" -> Err("ValueNull")
      [] v.t = "Object" -> Ok(v.map)
      [] OTHER -> Err("TypeNotMatch")

\* as_array_ref, as_array_mut_ref, as_array
as_array(v) ==
    CASE v.t = "Null" -> Err("ValueNull")
      [] v.t = "Array" -> Ok(v.list)
      [] OTHER -> Err("TypeNotMatch")

\* the accessors by target: [kind, w] with w = 0 where the target has no width
Accessor(kind, w) == [kind |-> kind, w |-> w]

StrKinds == {"str", "mut_str", "string"}

ObjectKinds == {"object_ref", "object_mut_ref", "object"}

ArrayKinds == {"array_ref", "array_mut_ref", "array"}

Accessors ==
    {Accessor("bool", 0)}
    \cup {Accessor(k, w) : k \in {"i", "u"}, w \in Widths}
    \cup {Accessor("f", w) : w \in {32, 64}}
    \cup {Accessor(k, 0) : k \in StrKinds \cup ObjectKinds \cup ArrayKinds}

\* as_<kind><w> applied to v
as_(a, v) ==
    CASE a.kind = "bool" -> as_bool(v)
      [] a.kind = "i" -> as_i(v, a.w)
      [] a.kind = "u" -> as_u(v, a.w)
      [] a.kind = "f" -> as_f(v, a.w)
      [] a.kind \in StrKinds -> as_str(v)
      [] a.kind \in ObjectKinds -> as_object(v)
      [] a.kind \in ArrayKinds -> as_array(v)

\* opt_<kind><w> applied to v
opt_(a, v) == Result_ok(as_(a, v))

(***************************************************************************)
(* json_object.rs: the mutators of a JsonObject over its HashMap.          *)
(***************************************************************************)
\* JsonObject::len
map_len(m) == Cardinality(DOMAIN m)

\* JsonObject::get
get(m, key) == IF key \in DOMAIN m THEN Some(m[key]) ELSE NoneValue

\* JsonObject::remove: the map left and the value removed
remove(m, key) ==
    [map |-> [k \in (DOMAIN m) \ {key} |-> m[k]], removed |-> get(m, key)]

\* insert_i8 .. insert_i128
insert_signed(m, key, value) ==
    insert(m, key, IF value > 0 THEN VUint(value) ELSE VInt(value))

\* accumulate that forgets the value the key mapped to
accumulate_match_replace(r, key, value) == insert(r.map, key, value)

\* the match of accumulate on r = self.remove(&key)
accumulate_match(r, key, value) ==
    IF ~r.removed.some THEN insert(r.map, key, value)
    ELSE IF r.removed.val.t = "Array"
    THEN insert(r.map, key, VArray(push(r.removed.val.list, value)))
    ELSE insert(r.map, key, VArray(push(push(<<>>, r.removed.val), value)))

\* JsonObject::accumulate
accumulate(m, key, value) == accumulate_match(remove(m, key), key, value)

(***************************************************************************)
(* Calls of the conversions, accessors and mutators on the run's value.    *)
(***************************************************************************)
\* the last call: fn is "from", "as", "opt", "insert", "insert_i", "remove"
\* or "accumulate"; kind and w name the native type, key and n the arguments
Call(fn, kind, w, key, n, res) ==
    [fn |-> fn, kind |-> kind, w |-> w, key |-> key, n |-> n, res |-> res]

NoCall == Call("", "", 0, <<>>, 0, VNull)

\* a HashMap call made by a mutator
MapCall(op, key, value) == [op |-> op, key |-> key, value |-> value]

\* the calls one object receives
MaxCalls == 3

\* the integers around the powers of two up to 2^MaxBits
MaxBits == 16

Magnitudes ==
    {0, 44, 200, 300}
    \cup UNION {{Pow2(k) - 1, Pow2(k), Pow2(k) + 1} : k \in 0..MaxBits}

IntInputs == Magnitudes \cup {0 - n : n \in Magnitudes}

\* the values of iN (kind "i") and of uN (kind "u") among IntInputs
NativeInputs(kind, w) ==
    {n \in IntInputs :
        IF kind = "u" THEN n >= 0 /\ (w \in {32, 64, 128} \/ n < Pow2(w))
        ELSE w \in {32, 64, 128} \/ (n >= 0 - Pow2(w - 1) /\ n < Pow2(w - 1))}

\* From<iN> / From<uN>
from_native(kind, value) ==
    IF kind = "u" THEN from_unsigned(value) ELSE from_signed(value)

ApiKeys == {Str(<<"a">>), Str(<<"b">>)}

ApiValues == {VUint(1), VUint(2), VArray(<<>>)}

ObjectInts == {-1, 0, 1}

ApiVars == <<build, src, cfg, text, phase, bytes, pos, len, stack, mode, ret, err,
             entry, text2>>

\* JsonValue::from(n) builds the value of the run
From ==
    /\ src = "value" /\ phase = "api" /\ out = NoCall
    /\ \E kind \in {"i", "u"}, w \in Widths :
        \E n \in NativeInputs(kind, w) :
            /\ tree' = from_native(kind, n)
            /\ out' = Call("from", kind, w, <<>>, n, from_native(kind, n))
    /\ UNCHANGED <<calls, ApiVars>>

\* value.as_*() and value.opt_*()
Access ==
    /\ src = "value" /\ phase = "api"
    /\ \E a \in Accessors :
        \/ out' = Call("as", a.kind, a.w, <<>>, 0, as_(a, tree))
        \/ out' = Call("opt", a.kind, a.w, <<>>, 0, opt_(a, tree))
    /\ UNCHANGED <<tree, calls, ApiVars>>

\* object.insert(key, value)
Insert ==
    /\ src = "object" /\ phase = "api" /\ Len(calls) < MaxCalls
    /\ \E key \in ApiKeys, value \in ApiValues :
        /\ tree' = VObject(insert(tree.map, key, value))
        /\ calls' = Append(calls, MapCall("insert", key, value))
        /\ out' = Call("insert", "", 0, key, 0, value)
    /\ UNCHANGED ApiVars

\* object.insert_i8(key, n) .. object.insert_i128(key, n)
InsertSigned ==
    /\ src = "object" /\ phase = "api" /\ Len(calls) < MaxCalls
    /\ \E key \in ApiKeys, w \in Widths, n \in ObjectInts :
        \E m \in {insert_signed(tree.map, key, n)} :
            /\ tree' = VObject(m)
            /\ calls' = Append(calls, MapCall("insert", key, m[key]))
            /\ out' = Call("insert_i", "i", w, key, n, m[key])
    /\ UNCHANGED ApiVars

\* object.remove(key)
Remove ==
    /\ src = "object" /\ phase = "api" /\ Len(calls) < MaxCalls
    /\ \E key \in ApiKeys :
        \E r \in {remove(tree.map, key)} :
            /\ tree' = VObject(r.map)
            /\ calls' = Append(calls, MapCall("remove", key, VNull))
            /\ out' = Call("remove", "", 0, key, 0, r.removed)
    /\ UNCHANGED ApiVars

\* object.accumulate(key, value)
Accumulate ==
    /\ src = "object" /\ phase = "api" /\ Len(calls) < MaxCalls
    /\ \E key \in ApiKeys, value \in ApiValues :
        /\ tree' = VObject(accumulate(tree.map, key, value))
        /\ calls' = Append(calls, MapCall("accumulate", key, value))
        /\ out' = Call("accumulate", "", 0, key, 0, value)
    /\ UNCHANGED ApiVars

(***************************************************************************)
(* json_object.rs: the typed getters.  The null of the value enum is       *)
(* written JsonValue::None in this file and JsonValue::Null in             *)
(* json_value.rs; both name the variant VNull.                             *)
(***************************************************************************)
\* 2^w + value, the value of a negative integer cast to an unsigned type
\* of 32 bits or more (beyond the integers of the model)
Wrapped(w, value) == [wrapped |-> value, w |-> w]

\* `i as iN`, `i as uN`, `u as iN`, `u as uN` on the stored integer
get_cast(value, kind, w) ==
    IF kind = "u" /\ value < 0 /\ w \in {32, 64, 128} THEN Wrapped(w, value)
    ELSE as_cast(value, w, kind = "i")

\* a getter without the arm for a stored null
get_int_no_null(m, key, kind, w) ==
    LET v == get(m, key)
    IN IF ~v.some THEN Err("NotFound")
       ELSE IF v.val.t = "Int" THEN Ok(Some(get_cast(v.val.i, kind, w)))
       ELSE IF v.val.t = "Uint" THEN Ok(Some(get_cast(v.val.u, kind, w)))
       ELSE Err("CastError")

\* get_i8 .. get_i128 (kind "i") and get_u8 .. get_u128 (kind "u")
get_int(m, key, kind, w) ==
    LET v == get(m, key)
    IN IF ~v.some THEN Err("NotFound")
       ELSE IF v.val.t = "Null" THEN Ok(NoneValue)
       ELSE IF v.val.t = "Int" THEN Ok(Some(get_cast(v.val.i, kind, w)))
       ELSE IF v.val.t = "Uint" THEN Ok(Some(get_cast(v.val.u, kind, w)))
       ELSE Err("CastError")

\* get_bool: the key is not looked at
get_bool(m, key) == Ok(Some(FALSE))

\* object.get_i8(key) .. object.get_u128(key)
GetInt ==
    /\ src = "lookup" /\ phase = "api"
    /\ \E key \in ApiKeys, kind \in {"i", "u"}, w \in Widths :
        out' = Call("get", kind, w, key, 0, get_int(tree.map, key, kind, w))
    /\ UNCHANGED <<tree, calls, ApiVars>>

\* object.get_bool(key)
GetBool ==
    /\ src = "lookup" /\ phase = "api"
    /\ \E key \in ApiKeys :
        out' = Call("get_bool", "", 0, key, 0, get_bool(tree.map, key))
    /\ UNCHANGED <<tree, calls, ApiVars>>

(***************************************************************************)
(* json_array.rs: the indexed operations on the Vec of the array.          *)
(***************************************************************************)
\* the values pushed and inserted, and the longest array they build
ArrayValues == {VNull, VUint(1), VUint(2)}

MaxList == 3

\* an insert that overwrites the element at index
array_insert_over(l, value, index) ==
    SubSeq(l, 1, index) \o <<value>> \o SubSeq(l, index + 2, Len(l))

\* Vec::insert for index <= len: the elements from index on move right
array_insert(l, value, index) ==
    SubSeq(l, 1, index) \o <<value>> \o SubSeq(l, index + 1, Len(l))

\* Vec::remove for index < len: the elements behind index move left
array_remove(l, index) ==
    SubSeq(l, 1, index) \o SubSeq(l, index + 2, Len(l))

\* JsonArray::get
array_get(l, index) == IF index < Len(l) THEN Some(l[index + 1]) ELSE NoneValue

\* JsonArray::is_null
is_null(l, index) ==
    LET v == array_get(l, index) IN v.some /\ v.val.t = "Null"

\* array.push(value)
Push ==
    /\ src = "array" /\ phase = "api" /\ mode = "idle" /\ Len(tree.list) < MaxList
    /\ \E value \in ArrayValues :
        /\ tree' = VArray(push(tree.list, value))
        /\ out' = Call("push", "", 0, <<>>, 0, value)
    /\ UNCHANGED <<calls, ApiVars>>

\* array.insert(value, index): Vec::insert panics when index > len
ArrayInsert ==
    /\ src = "array" /\ phase = "api" /\ mode = "idle" /\ Len(tree.list) < MaxList
    /\ \E value \in ArrayValues, index \in 0..(MaxList + 1) :
        /\ out' = Call("insert", "", 0, <<>>, index, value)
        /\ IF index > Len(tree.list)
           THEN mode' = "panic" /\ UNCHANGED tree
           ELSE tree' = VArray(array_insert(tree.list, value, index)) /\ UNCHANGED mode
    /\ UNCHANGED <<build, src, cfg, text, phase, bytes, pos, len, stack, ret, err,
                   entry, text2, calls>>

\* array.remove(index)
ArrayRemove ==
    /\ src = "array" /\ phase = "api" /\ mode = "idle"
    /\ \E index \in 0..(MaxList + 1) :
        IF index < Len(tree.list)
        THEN /\ tree' = VArray(array_remove(tree.list, index))
             /\ out' = Call("remove", "", 0, <<>>, index, Some(tree.list[index + 1]))
        ELSE /\ out' = Call("remove", "", 0, <<>>, index, NoneValue)
             /\ UNCHANGED tree
    /\ UNCHANGED <<calls, ApiVars>>

\* array.get(index)
ArrayGet ==
    /\ src = "array" /\ phase = "api" /\ mode = "idle"
    /\ \E index \in 0..(MaxList + 1) :
        out' = Call("get", "", 0, <<>>, index, array_get(tree.list, index))
    /\ UNCHANGED <<tree, calls, ApiVars>>

\* array.is_null(index)
IsNull ==
    /\ src = "array" /\ phase = "api" /\ mode = "idle"
    /\ \E index \in 0..(MaxList + 1) :
        out' = Call("is_null", "", 0, <<>>, index, is_null(tree.list, index))
    /\ UNCHANGED <<tree, calls, ApiVars>>

Next ==
    \/ Build
    \/ Parse
    \/ NextValue
    \/ ReadObjectStart
    \/ ReadObjectKey
    \/ ReadObjectValue
    \/ ReadArrayLoop
    \/ ReadArrayElement
    \/ ParseOk
    \/ Rebuild
    \/ From
    \/ Access
    \/ Insert
    \/ InsertSigned
    \/ Remove
    \/ Accumulate
    \/ GetInt
    \/ GetBool
    \/ Push
    \/ ArrayInsert
    \/ ArrayRemove
    \/ ArrayGet
    \/ IsNull

(***************************************************************************)
(* Inputs.  A run starts either from a text handed to parse or from a      *)
(* value tree handed to the builder, under one of the two build profiles.  *)
(***************************************************************************)
Builds == {"debug", "release"}

Configs == {BuildConfig_default, BuildConfig_pretty}

InitRun(b, s, t, c, x) ==
    /\ build = b /\ src = s /\ tree = t /\ cfg = c /\ text = x
    /\ phase = (IF s = "tree" THEN "tree" ELSE IF s = "text" THEN "text" ELSE "api")
    /\ bytes = <<>> /\ pos = 0 /\ len = 0
    /\ stack = <<>> /\ mode = "idle" /\ ret = VNull /\ err = "" /\ entry = 0
    /\ text2 = <<>>
    /\ calls = <<>> /\ out = NoCall

InitFrom(Texts, Trees) ==
    \E b \in Builds :
        \/ \E x \in Texts : InitRun(b, "text", VNull, BuildConfig_default, x)
        \/ \E t \in Trees : \E c \in Configs : InitRun(b, "tree", t, c, <<>>)

\* a text of at most n characters of the alphabet A (a set of code points)
\* behind the prefix pre is handed to parse
InitTextOver(pre, A, n) ==
    \E b \in Builds : \E k \in 0..n : \E x \in [1..k -> A] :
        InitRun(b, "text", VNull, BuildConfig_default,
                pre \o Flatten([i \in 1..k |-> Utf8Encode(x[i])]))

CodePoints(names) == {Code(c) : c \in names}

\* the texts of the specification's examples and of the crate's tests
ExampleTexts ==
    {Str(<<"{", "\"", "a", "\"", ":", "1", ",", "\"", "b", "\"", ":", "2", "}">>),
     Str(<<"[", "1", ",", ",", "3", "]">>),
     Str(<<"[", ",", " ", "1", ";", " ", "2", ";", " ", "3", ",", " ", "]">>),
     Str(<<"[", "1", ",", " ", "2", ",", " ", "3", ",", " ", "4", ",", ",", "]">>),
     Str(<<"[", "1", ":", " ", "2", ":", " ", "3", "]">>),
     Str(<<"0", "x", "1", "A">>),
     Str(<<"0", "1", "0">>),
     Str(<<"-", "5">>),
     Str(<<"\"", "\\", "u", "D", "8", "3", "D", "\\", "u", "D", "E", "0", "1", "\"">>),
     Str(<<"\"", "\\", "n", "\\", "b", "\\", "f", "\\", "t", "\\", "r", "\\", "'",
           "\\", "\"", "\\", "\\", "\\", "/", "\"">>),
     Str(<<"\"", "\n", "\"">>),
     Str(<<"\"", "h", "e", "l", "l", "o">>),
     Str(<<"U+FEFF", "\"", "s", "\"">>),
     Str(<<"{", "\"", "k", "\"", ":", "1", "}">>),
     Str(<<"{", "\"", "k", "\"", ":", ">", "1", "}">>),
     Str(<<"{", "\"", "k", "\"", "=", "1", "}">>),
     Str(<<"{", "\"", "k", "\"", "=", ">", "1", "}">>),
     Str(<<"{", "\"", "k", "\"", ":", "=", "1", "}">>),
     Str(<<"{", "\"", "k", "\"", ":", "1", ",", " ", "\"", "n", "\"", ":", " ", "1",
           "0", ";", " ", "\"", "c", "\"", ":", " ", "1", "0", "}">>),
     Str(<<"{", "1", "2", "3", "}">>),
     Str(<<"{", "1", ":", "2", "}">>),
     Str(<<"{", "}">>),
     Str(<<"[", "]">>),
     Str(<<"/", "*">>),
     Str(<<"/">>),
     Str(<<"/", "/">>),
     Str(<<"/", "/", "h", "\n", "\"", "s", "\"">>),
     Str(<<"#", "h", "\n", "\"", "s", "\"">>),
     Str(<<"/", "*", "h", "*", "/", "\n", "\"", "s", "\"">>),
     Str(<<>>),
     Str(<<" ", " ", " ">>),
     Str(<<"{", "\"", "a", "\"", ":", "[", "t", "r", "u", "e", ",", "{", "}", "]",
           "}">>)}

\* the tree of the integration test serialization_to_json_str, cut down to
\* one member of each kind
ExampleTrees ==
    {VObject(insert(insert(insert(EmptyMap, Str(<<"t">>), from_bool(TRUE)),
                           Str(<<"i">>), from_signed(-10)),
                    Str(<<"a">>), VArray(push(push(<<>>, from_signed(100)),
                                              from_str(Str(<<"z">>)))))),
     VArray(push(push(<<>>, VObject(EmptyMap)), VArray(<<>>))),
     from_f64(FALSE, 100001, -3)}

\* a value handed to the conversions and accessors, or an object handed to
\* the mutators
InitApi(Values, Objects) ==
    \E b \in Builds :
        \/ \E v \in Values : InitRun(b, "value", v, BuildConfig_default, <<>>)
        \/ \E o \in Objects : InitRun(b, "object", o, BuildConfig_default, <<>>)

\* the values of the specification's coercion examples
ExampleValues == {VNull, VInt(-1), VUint(300), VUint(200)}

\* JsonObject::new()
ExampleObjects == {VObject(EmptyMap)}

\* an object handed to the getters, or an array handed to the indexed
\* operations
InitIndexed(Lookups, Arrays) ==
    \E b \in Builds :
        \/ \E o \in Lookups : InitRun(b, "lookup", o, BuildConfig_default, <<>>)
        \/ \E a \in Arrays : InitRun(b, "array", a, BuildConfig_default, <<>>)

\* an object with a null and an integer member
ExampleLookups == {VObject(insert(insert(EmptyMap, Str(<<"a">>), VNull), Str(<<"b">>), VInt(-1)))}

\* JsonArray::new()
ExampleArrays == {VArray(<<>>)}

Init ==
    \/ InitFrom(ExampleTexts, ExampleTrees)
    \/ InitApi(ExampleValues, ExampleObjects)
    \/ InitIndexed(ExampleLookups, ExampleArrays)

Spec == Init /\ [][Next]_vars

\* the run is over: a value was parsed and rendered again, or an Err or a
\* panic ended it
RunEnded == phase = "end" \/ mode \in {"err", "panic"}

(***************************************************************************)
(* Array texts: '[' followed by at most MaxArrayBody characters of         *)
(* brackets, both separators, a digit and a space.                         *)
(***************************************************************************)
MaxArrayBody == 5

ArrayAlphabet == CodePoints({"[", "]", ",", ";", "1", " "})

InitArray == Init \/ InitTextOver(<<LBRACKET>>, ArrayAlphabet, MaxArrayBody)

SpecArray == InitArray /\ [][Next]_vars

\* nesting depth of the array text t in front of index i (1-based); the
\* texts hold no string and no comment, so every bracket counts
RECURSIVE DepthBefore(_, _)
DepthBefore(t, i) ==
    IF i <= 1 THEN 0
    ELSE LET d == DepthBefore(t, i - 1) IN
        IF t[i - 1] = LBRACKET THEN d + 1
        ELSE IF t[i - 1] = RBRACKET THEN d - 1
        ELSE d

\* index of the ']' that closes the '[' at index 1 (0 when there is none)
ClosingIndex(t) ==
    IF \E i \in 2..Len(t) : t[i] = RBRACKET /\ DepthBefore(t, i) = 1
    THEN CHOOSE i \in 2..Len(t) :
            /\ t[i] = RBRACKET /\ DepthBefore(t, i) = 1
            /\ \A j \in 2..(i - 1) : ~(t[j] = RBRACKET /\ DepthBefore(t, j) = 1)
    ELSE 0

\* indices of the top-level separators of the array that starts at index 1
TopSeparators(t) ==
    {i \in 2..(ClosingIndex(t) - 1) : t[i] \in {COMMA, SEMI} /\ DepthBefore(t, i) = 1}

\* the k-th element text (k from 0): between the k-th and the (k+1)-th
\* top-level separator
ElementText(t, k) ==
    LET seps == TopSeparators(t)
        lo == IF k = 0 THEN 1
              ELSE CHOOSE i \in seps : Cardinality({j \in seps : j < i}) = k - 1
        hi == IF k = Cardinality(seps) THEN ClosingIndex(t)
              ELSE CHOOSE i \in seps : Cardinality({j \in seps : j < i}) = k
    IN Slice(t, lo, hi - 1)

IsBlank(s) == \A i \in 1..Len(s) : s[i] \in {SPACE, TAB, LF, CR}

ArrayParsed ==
    /\ src = "text" /\ mode = "done" /\ stack = <<>>
    /\ text # <<>> /\ text[1] = LBRACKET /\ ret.t = "Array"

\* C8: in an accepted array text every omitted element is a Null at its own
\* index: the array has one element per top-level separator plus one (none
\* for an empty body), the elements whose text is blank are Null and the
\* others are not.
C8_ArrayHoles ==
    ArrayParsed =>
        LET k == Cardinality(TopSeparators(text))
            body == Slice(text, 1, ClosingIndex(text) - 1)
        IN /\ ClosingIndex(text) > 0
           /\ Len(ret.list) = (IF IsBlank(body) THEN 0 ELSE k + 1)
           /\ \A e \in 0..(Len(ret.list) - 1) :
                (ret.list[e + 1] = VNull) <=> IsBlank(ElementText(text, e))

\* an array text with a hole in front, one in the middle and a trailing one
\* has been parsed
C8_Witness ==
    /\ ArrayParsed
    /\ text = Str(<<"[", ",", "1", ",", ",", "]">>)
    /\ Len(ret.list) = 4
    /\ ret.list[1] = VNull /\ ret.list[3] = VNull /\ ret.list[4] = VNull

(***************************************************************************)
(* Value trees: a scalar of every From conversion, the empty containers,   *)
(* and the arrays and objects that hold at most MaxWidth of those.         *)
(***************************************************************************)
MaxWidth == 2

TreeKeys == <<Str(<<"a">>), Str(<<"b">>), Str(<<"c">>), Str(<<"d">>)>>

ScalarTrees ==
    {from_bool(TRUE), from_bool(FALSE), from_signed(-1), from_signed(0),
     from_unsigned(2), from_f64(FALSE, 15, -1), from_str(Str(<<"a">>))}

LeafTrees == ScalarTrees \cup {VArray(<<>>), VObject(EmptyMap)}

\* JsonArray::new() and at most MaxWidth calls of push
ArrayTrees == {VArray(l) : l \in UNION {[1..k -> LeafTrees] : k \in 0..MaxWidth}}

\* JsonObject::new() and at most MaxWidth calls of insert, all keys distinct
ObjectTrees ==
    {VObject(m) :
        m \in UNION {[K -> LeafTrees] : K \in SUBSET {TreeKeys[i] : i \in 1..MaxWidth}}}

ValueTrees == ScalarTrees \cup ArrayTrees \cup ObjectTrees

InitTree == Init \/ InitFrom({}, ValueTrees)

SpecTree == InitTree /\ [][Next]_vars

\* parse has returned, or the run has ended before it could
ParseEnded == phase \in {"parsed", "end"} \/ mode \in {"err", "panic"}

\* C1: round trip.  For every value tree whose compact rendering has been
\* handed to parse, parse succeeds and returns a value structurally equal
\* to the tree (maps are compared as mappings, so no order of keys is
\* asked of the parsed object).
C1_RoundTrip ==
    (src = "tree" /\ cfg = BuildConfig_default /\ phase # "tree" /\ ParseEnded) =>
        (mode = "done" /\ ret = tree)

\* C5: Bool(true) renders as the text true and Bool(false) as the text
\* false, in compact and in pretty mode.
C5_BoolText ==
    (src = "tree" /\ tree.t = "Bool" /\ phase # "tree") =>
        text = (IF tree.b THEN str_true ELSE str_false)

\* C6: pretty idempotence.  For every value tree whose pretty rendering
\* has been handed to parse, parse accepts the text and the pretty
\* rendering of the parsed value is the same text.
C6_PrettyIdempotent ==
    (src = "tree" /\ cfg = BuildConfig_pretty /\ phase # "tree" /\ RunEnded) =>
        (phase = "end" /\ text2 = text)

\* C7: rendering is total.  Rendering a value tree never panics, in either
\* mode; in compact mode the empty object renders as {} and the empty array
\* as [].
C7_RenderingTotal ==
    src = "tree" =>
        /\ ~(phase = "tree" /\ mode = "panic")
        /\ (phase # "tree" /\ cfg = BuildConfig_default /\ tree = VObject(EmptyMap))
                => text = <<LBRACE, RBRACE>>
        /\ (phase # "tree" /\ cfg = BuildConfig_default /\ tree = VArray(<<>>))
                => text = <<LBRACKET, RBRACKET>>

(***************************************************************************)
(* Short texts: at most MaxChars characters, one of them of two bytes,     *)
(* with the characters that open a string, an escape and an array; and     *)
(* three strings that end in a \u escape of a surrogate.                   *)
(***************************************************************************)
MaxChars == 4

CharAlphabet == CodePoints({"U+00E9", "\"", "\\", "u", "1", " ", "["})

SurrogateTexts ==
    {Str(<<"\"", "\\", "u", "D", "8", "3", "D">>),
     Str(<<"\"", "\\", "u", "D", "8", "0", "0", "\\", "u", "0", "0", "0", "0", "\"">>),
     Str(<<"\"", "\\", "u", "D", "8", "0", "0", "\\", "u", "D", "C", "0", "0", "\"">>)}

InitChars ==
    \/ Init
    \/ InitFrom(SurrogateTexts, {})
    \/ InitTextOver(<<>>, CharAlphabet, MaxChars)

SpecChars == InitChars /\ [][Next]_vars

\* C2: parse never panics.  While the tokenizer runs and when it has
\* returned, no index was out of bounds and no subtraction underflowed, and
\* the cursor satisfies 0 <= pos <= len.
C2_NoPanic ==
    (src = "text" /\ phase = "parse") =>
        (mode # "panic" /\ 0 <= pos /\ pos <= len)

(***************************************************************************)
(* Integer literals: at most MaxLiteral characters of decimal, octal and   *)
(* hexadecimal digits, both hex markers and the minus sign.                *)
(***************************************************************************)
MaxLiteral == 4

LiteralAlphabet == CodePoints({"0", "1", "8", "A", "x", "X", "-"})

InitLiteral == Init \/ InitTextOver(<<>>, LiteralAlphabet, MaxLiteral)

SpecLiteral == InitLiteral /\ [][Next]_vars

\* the text is one literal of the alphabet and parse has returned
LiteralEnded ==
    /\ src = "text" /\ text # <<>> /\ ParseEnded
    /\ \A i \in 1..Len(text) : text[i] \in LiteralAlphabet

HasHexPrefix(s) == Len(s) >= 2 /\ s[1] = ZERO /\ s[2] \in {LOWER_X, UPPER_X}

HasOctalPrefix(s) == Len(s) >= 2 /\ s[1] = ZERO /\ ~HasHexPrefix(s)

\* parse returned Ok(v) when r holds a number, Err(NumberParseError) otherwise
ParsedAs(r, v) ==
    IF r.ok THEN mode = "done" /\ ret = v
    ELSE mode = "err" /\ err = "NumberParseError"

\* the parts of C9 that a '-' does not touch: 0x/0X selects base 16 and a
\* leading 0 of a longer literal base 8, both Uint; every literal that does
\* not start with '-' or one of these prefixes is a base 10 Uint; a digit
\* that is invalid for the base (or no digit at all) is a NumberParseError
UnsignedRadix ==
    (LiteralEnded /\ text[1] # MINUS) =>
        LET digits == IF HasHexPrefix(text) THEN Slice(text, 2, Len(text))
                      ELSE IF HasOctalPrefix(text) THEN Slice(text, 1, Len(text))
                      ELSE text
            radix == IF HasHexPrefix(text) THEN 16
                     ELSE IF HasOctalPrefix(text) THEN 8 ELSE 10
            ok == digits # <<>> /\ AllDigits(digits, radix)
        IN ParsedAs([ok |-> ok], VUint(DigitsValue(digits, radix)))

\* C9 as stated: radix detection, and a '-' in front of a hex or octal
\* literal never yields a negative value.
C9_RadixDetection ==
    /\ UnsignedRadix
    /\ (LiteralEnded /\ text[1] = MINUS /\ Len(text) > 1 /\ text[2] # MINUS) =>
            IF HasHexPrefix(Tail(text)) \/ HasOctalPrefix(Tail(text))
            THEN ~(mode = "done" /\ ret.t = "Int" /\ ret.i < 0)
            ELSE ParsedAs([ok |-> AllDigits(Tail(text), 10)],
                          VInt(-DigitsValue(Tail(text), 10)))

\* C9 amended: radix detection looks at the start of the literal only, so a
\* literal that starts with '-' is always a signed base 10 literal:
\* '-' and decimal digits give Int of the negated value (also behind
\* leading zeros, -010 is Int(-10)), anything else after the '-' (a hex
\* marker, a hex digit, nothing) is a NumberParseError.
C9_RadixDetectionAmended ==
    /\ UnsignedRadix
    /\ (LiteralEnded /\ text[1] = MINUS) =>
            ParsedAs([ok |-> Len(text) > 1 /\ AllDigits(Tail(text), 10)],
                     VInt(-DigitsValue(Tail(text), 10)))

\* the literal -010 has been parsed, in base 10 and with its sign
C9_Witness ==
    /\ LiteralEnded
    /\ text = Str(<<"-", "0", "1", "0">>)
    /\ mode = "done" /\ ret = VInt(-10)

\* C10: origin tag.  Every Int that parse returns for an integer literal
\* holds a value below zero (and every Uint a value that is not).
C10_OriginTag ==
    (LiteralEnded /\ mode = "done") =>
        /\ ret.t = "Int" => ret.i < 0
        /\ ret.t = "Uint" => ret.u >= 0

(***************************************************************************)
(* RFC 8259 documents: the numbers of at most MaxNumber characters and the *)
(* strings of at most MaxEscapes \uXXXX escapes.                           *)
(***************************************************************************)
MaxNumber == 5

MaxEscapes == 1

LOWER_U == 117

ExponentMarks == CodePoints({"e", "E"})

NumberAlphabet == CodePoints({"0", "1", "-", "+", ".", "e"})

EscapeDigits == CodePoints({"0", "D", "F"})

\* a string of k escapes, each \u and four hex digits
InitEscapes ==
    \E b \in Builds : \E k \in 0..MaxEscapes : \E x \in [1..k -> [1..4 -> EscapeDigits]] :
        InitRun(b, "text", VNull, BuildConfig_default,
                <<DQUOTE>> \o Flatten([i \in 1..k |-> <<BACKSLASH, LOWER_U>> \o x[i]])
                           \o <<DQUOTE>>)

InitRfc ==
    \/ Init
    \/ InitTextOver(<<>>, NumberAlphabet, MaxNumber)
    \/ InitEscapes

SpecRfc == InitRfc /\ [][Next]_vars

\* RFC 8259 section 6: int = zero / ( digit1-9 *DIGIT )
IsRfcInt(s) == s # <<>> /\ AllDigits(s, 10) /\ (s[1] = ZERO => Len(s) = 1)

\* frac = decimal-point 1*DIGIT, or nothing
IsRfcFrac(s) == s = <<>> \/ (Len(s) >= 2 /\ s[1] = DOT /\ AllDigits(Tail(s), 10))

\* the digits of an exponent behind e and an optional sign
ExpDigits(s) == IF s[2] \in {PLUS, MINUS} THEN Slice(s, 2, Len(s)) ELSE Tail(s)

\* exp = e [ minus / plus ] 1*DIGIT, or nothing
IsRfcExp(s) ==
    s = <<>> \/ (/\ Len(s) >= 2 /\ s[1] \in ExponentMarks
                 /\ ExpDigits(s) # <<>> /\ AllDigits(ExpDigits(s), 10))

\* number = [ minus ] int [ frac ] [ exp ], cut at <<i, j, k>>
RfcCuts(s) ==
    {c \in (0..1) \X (0..Len(s)) \X (0..Len(s)) :
        /\ c[1] <= c[2] /\ c[2] <= c[3]
        /\ (c[1] = 1 => s # <<>> /\ s[1] = MINUS)
        /\ IsRfcInt(Slice(s, c[1], c[2]))
        /\ IsRfcFrac(Slice(s, c[2], c[3]))
        /\ IsRfcExp(Slice(s, c[3], Len(s)))}

IsRfcNumber(s) == RfcCuts(s) # {}

\* the number an RFC 8259 number text denotes, as <<mant, exp>> of
\* mant * 10^exp with the sign in neg
RfcDenotes(s) ==
    LET c == CHOOSE c \in RfcCuts(s) : TRUE
        int == Slice(s, c[1], c[2])
        frac == IF c[2] < c[3] THEN Slice(s, c[2] + 1, c[3]) ELSE <<>>
        exp == Slice(s, c[3], Len(s))
        e == IF exp = <<>> THEN 0
             ELSE (IF exp[2] = MINUS THEN -1 ELSE 1) * DigitsValue(ExpDigits(exp), 10)
    IN [neg |-> c[1] = 1, norm |-> StripZeros(DigitsValue(int \o frac, 10), e - Len(frac))]

\* the number a parsed value holds, in the same form
NumberOf(v) ==
    CASE v.t = "Uint" -> [neg |-> FALSE, norm |-> StripZeros(v.u, 0)]
      [] v.t = "Int" -> [neg |-> v.i < 0,
                         norm |-> StripZeros(IF v.i < 0 THEN -v.i ELSE v.i, 0)]
      [] v.t = "Float" -> [neg |-> v.neg, norm |-> <<v.mant, v.exp>>]
      [] OTHER -> [neg |-> FALSE, norm |-> <<-1, 0>>]

\* same number; the sign of a zero does not count
SameNumber(a, b) == a.norm = b.norm /\ (a.norm[1] # 0 => a.neg = b.neg)

\* the text is a string of \uXXXX escapes only
IsEscapeString(s) ==
    /\ Len(s) >= 2 /\ (Len(s) - 2) % 6 = 0
    /\ s[1] = DQUOTE /\ s[Len(s)] = DQUOTE
    /\ \A g \in 0..((Len(s) - 2) \div 6 - 1) :
        /\ s[2 + 6 * g] = BACKSLASH /\ s[3 + 6 * g] = LOWER_U
        /\ AllDigits(Slice(s, 3 + 6 * g, 7 + 6 * g), 16)

\* the code units its escapes name
EscapeUnits(s) ==
    [g \in 1..((Len(s) - 2) \div 6) |-> DigitsValue(Slice(s, 6 * g - 3, 6 * g + 1), 16)]

\* C3: superset of RFC 8259.  A text that is an RFC 8259 number, whatever
\* its form, is accepted and parse returns the number it denotes; a string
\* of \uXXXX escapes that name no surrogate is accepted and parse returns
\* the string of the characters named.
C3_Rfc8259 ==
    (src = "text" /\ ParseEnded) =>
        /\ IsRfcNumber(text) =>
                mode = "done" /\ SameNumber(NumberOf(ret), RfcDenotes(text))
        /\ (IsEscapeString(text) /\ \A g \in DOMAIN EscapeUnits(text) :
                                        IsScalar(EscapeUnits(text)[g])) =>
                /\ mode = "done"
                /\ ret = VString(Flatten([g \in DOMAIN EscapeUnits(text) |->
                                            Utf8Encode(EscapeUnits(text)[g])]))

(***************************************************************************)
(* Objects with distinct keys: the texts of at most MaxKeys members in     *)
(* compact form, and the trees of at most MaxWidth inserts.                *)
(***************************************************************************)
MaxKeys == 3

KeySequences ==
    {o \in UNION {[1..k -> {TreeKeys[i] : i \in 1..MaxKeys}] : k \in 1..MaxKeys} :
        \A i, j \in 1..Len(o) : o[i] = o[j] => i = j}

\* {"k1":1,"k2":1,...}
ObjectText(ks) ==
    <<LBRACE>>
    \o Flatten([i \in 1..Len(ks) |->
            (IF i > 1 THEN <<COMMA>> ELSE <<>>)
            \o <<DQUOTE>> \o ks[i] \o Str(<<"\"", ":", "1">>)])
    \o <<RBRACE>>

ObjectTexts == {ObjectText(ks) : ks \in KeySequences}

InitObject == Init \/ InitFrom(ObjectTexts, ObjectTrees)

SpecObject == InitObject /\ [][Next]_vars

\* C4: insertion order.  An object parsed from a compact text of distinct
\* keys renders its keys in the order of the text, so the rendering is the
\* text again; and the text rendered for an object built by inserts is the
\* only text that object can render to.
C4_InsertionOrder ==
    /\ (src = "text" /\ phase = "end" /\ text \in ObjectTexts) => text2 = text
    /\ (src = "tree" /\ phase # "tree" /\ tree.t = "Object") =>
            to_json(tree, cfg) = {Rendered(text)}

(***************************************************************************)
(* Strings that open with a \u escape: one unit of at most UnitLen         *)
(* characters, closed or cut short; and a first unit followed by what      *)
(* stands between the units and a second unit, closed or cut short.        *)
(***************************************************************************)
UnitLen == 4

UnitAlphabet == CodePoints({"0", "8", "D", "F", "+", "g"})

SecondAlphabet == CodePoints({"0", "D", "+"})

FirstUnits ==
    {Str(<<"D", "8", "0", "0">>), Str(<<"D", "8", "3", "D">>), Str(<<"D", "B", "F", "F">>),
     Str(<<"D", "C", "0", "0">>), Str(<<"E", "0", "0", "0">>), Str(<<"0", "0", "4", "1">>)}

Betweens ==
    {<<>>, <<BACKSLASH>>, <<BACKSLASH, LOWER_U>>, <<LOWER_U>>, <<BACKSLASH, BACKSLASH>>}

Endings == {<<>>, <<DQUOTE>>}

EscapeTexts ==
    {<<DQUOTE, BACKSLASH, LOWER_U>> \o x \o e :
        x \in UNION {[1..k -> UnitAlphabet] : k \in 0..UnitLen}, e \in Endings}
    \cup
    {<<DQUOTE, BACKSLASH, LOWER_U>> \o h \o m \o y \o e :
        h \in FirstUnits, m \in Betweens,
        y \in UNION {[1..k -> SecondAlphabet] : k \in 0..UnitLen}, e \in Endings}

InitEscape == Init \/ InitFrom(EscapeTexts, {})

SpecEscape == InitEscape /\ [][Next]_vars

\* the text opens a string with a \u escape and parse has returned
EscapeEnded ==
    /\ src = "text" /\ ParseEnded
    /\ Len(text) >= 3 /\ Slice(text, 0, 3) = <<DQUOTE, BACKSLASH, LOWER_U>>

\* four hex digits
IsUnit(s) == Len(s) = UnitLen /\ AllDigits(s, 16)

IsHighSurrogate(u) == u >= 55296 /\ u <= 56319

IsLowSurrogate(u) == u >= 56320 /\ u <= 57343

\* the characters behind the first \u, those of the first unit, and those
\* behind the \u of the second unit
AfterFirst(t) == Slice(t, 3, Len(t))

FirstUnit(t) == Slice(t, 3, 3 + UnitLen)

HasSecond(t) ==
    /\ Len(t) >= 5 + UnitLen
    /\ t[4 + UnitLen] = BACKSLASH /\ t[5 + UnitLen] = LOWER_U

AfterSecond(t) == Slice(t, 5 + UnitLen, Len(t))

SecondUnit(t) == Slice(t, 5 + UnitLen, 5 + 2 * UnitLen)

\* C11: a \uXXXX escape whose unit is a scalar value outside the
\* high-surrogate range decodes by itself to that code point; a high
\* surrogate followed by a \uXXXX low surrogate decodes to the one scalar
\* ((hi - 0xD800) << 10 | (lo - 0xDC00)) + 0x10000.
C11_UnicodeEscape ==
    /\ (EscapeEnded /\ Len(text) = 4 + UnitLen /\ text[Len(text)] = DQUOTE
            /\ IsUnit(FirstUnit(text)) /\ IsScalar(DigitsValue(FirstUnit(text), 16))) =>
            /\ mode = "done"
            /\ ret = VString(Utf8Encode(DigitsValue(FirstUnit(text), 16)))
    /\ (EscapeEnded /\ Len(text) = 6 + 2 * UnitLen /\ text[Len(text)] = DQUOTE
            /\ IsUnit(FirstUnit(text)) /\ HasSecond(text) /\ IsUnit(SecondUnit(text))
            /\ IsHighSurrogate(DigitsValue(FirstUnit(text), 16))
            /\ IsLowSurrogate(DigitsValue(SecondUnit(text), 16))) =>
            /\ mode = "done"
            /\ ret = VString(Utf8Encode(
                        (DigitsValue(FirstUnit(text), 16) - 55296) * 1024
                        + (DigitsValue(SecondUnit(text), 16) - 56320) + 65536))

\* the error the escape at the head of the string t must give, "" when t
\* is none of the inputs the error contract names
EscapeError(t) ==
    IF Len(AfterFirst(t)) < UnitLen THEN "EOF"
    ELSE IF ~IsUnit(FirstUnit(t)) THEN "NumberParseError"
    ELSE IF IsHighSurrogate(DigitsValue(FirstUnit(t), 16)) THEN
        IF ~HasSecond(t) THEN "SyntaxError"
        ELSE IF Len(AfterSecond(t)) < UnitLen THEN "EOF"
        ELSE IF ~IsUnit(SecondUnit(t)) THEN "NumberParseError"
        ELSE ""
    ELSE IF ~IsScalar(DigitsValue(FirstUnit(t), 16)) THEN "CastError"
    ELSE ""

\* C12: error kinds of \u decoding.  Fewer than four characters where a
\* unit is expected is EOF, four characters that are not all hex digits
\* NumberParseError, a high surrogate not followed by \u SyntaxError, a code
\* point that is no scalar value CastError; parse returns exactly that Err.
C12_EscapeErrors ==
    (EscapeEnded /\ EscapeError(text) # "") =>
        (mode = "err" /\ err = EscapeError(text))

(***************************************************************************)
(* Values handed to the conversions and accessors: every variant, the      *)
(* integers around the powers of two, and strings around "true" / "false". *)
(***************************************************************************)
BoolStrings ==
    {str_true, str_false, Str(<<"T", "R", "U", "E">>), Str(<<"F", "a", "l", "s", "e">>),
     Str(<<"t", "r", "u">>), Str(<<"1">>), <<>>}

ValueInputs ==
    {VNull, VBool(TRUE), VBool(FALSE)}
    \cup {VUint(n) : n \in Magnitudes}
    \cup {VInt(n) : n \in IntInputs}
    \cup {VFloat(FALSE, 15, -1), VFloat(TRUE, 25, -2), VFloat(FALSE, 0, 0)}
    \cup {VString(s) : s \in BoolStrings}
    \cup {VObject(EmptyMap), VObject(insert(EmptyMap, Str(<<"a">>), VNull))}
    \cup {VArray(<<>>), VArray(push(<<>>, VNull))}

InitValue == Init \/ InitApi(ValueInputs, ExampleObjects)

SpecValue == InitValue /\ [][Next]_vars

\* an as_* accessor of an integer target has just been applied to the value
IntegerAccessed(kind) == src = "value" /\ out.fn = "as" /\ out.kind = kind

\* C13: unsigned accessors on a signed source.  as_u8 .. as_u128 applied to
\* Int(v) fail with TypeNotMatch when v < 0, and for every v >= 0 succeed
\* with the result the same accessor gives on Uint(v).
C13_UnsignedOfSigned ==
    (IntegerAccessed("u") /\ tree.t = "Int") =>
        IF tree.i < 0 THEN out.res = Err("TypeNotMatch")
        ELSE out.res = as_u(VUint(tree.i), out.w)

\* the variant the specification routes the signed integer n to
Routed(n) == IF n >= 0 THEN VUint(n) ELSE VInt(n)

\* C14: conversion from native signed integers.  JsonValue::from(n) of an
\* i8 .. i128 is Uint(n) when n >= 0 (0 included) and Int(n) when n < 0, and
\* insert_i8 .. insert_i128 store that same variant under the key.
C14_FromSigned ==
    /\ (out.fn = "from" /\ out.kind = "i") => (out.res = Routed(out.n) /\ tree = out.res)
    /\ out.fn = "insert_i" => get(tree.map, out.key) = Some(Routed(out.n))

\* r is v mod 2^w read in the target type: congruent to v modulo 2^w and in
\* the range of the type (for 32 bits and more every integer of the model is
\* in the range of the type, so r is v itself)
Narrowed(v, w, signed, r) ==
    IF w \in {32, 64, 128} THEN r = v
    ELSE /\ (r - v) % Pow2(w) = 0
         /\ IF signed THEN r >= 0 - Pow2(w - 1) /\ r < Pow2(w - 1)
            ELSE r >= 0 /\ r < Pow2(w)

\* C15: lossy integer narrowing.  On every Uint(v), and on every Int(v) when
\* the target is signed, the integer accessor of width w returns Ok of
\* v mod 2^w reinterpreted in the target type, and never an error.
C15_LossyNarrowing ==
    /\ (IntegerAccessed("i") /\ tree.t \in {"Uint", "Int"}) =>
            /\ out.res.ok
            /\ Narrowed(IF tree.t = "Uint" THEN tree.u ELSE tree.i, out.w, TRUE,
                        out.res.val)
    /\ (IntegerAccessed("u") /\ tree.t = "Uint") =>
            /\ out.res.ok
            /\ Narrowed(tree.u, out.w, FALSE, out.res.val)

\* C15 witness: Uint(200).as_i8() has returned Ok(-56)
C15_Witness ==
    /\ IntegerAccessed("i") /\ out.w = 8
    /\ tree = VUint(200)
    /\ out.res = Ok(-56)

\* the variants an accessor of the kind accepts, integer targets aside
AcceptedVariants(kind) ==
    CASE kind = "bool" -> {"Bool", "String"}
      [] kind = "f" -> {"Uint", "Int", "Float"}
      [] kind \in StrKinds -> {"String"}
      [] kind \in ObjectKinds -> {"Object"}
      [] kind \in ArrayKinds -> {"Array"}
      [] OTHER -> {"Uint", "Int"}

\* s is "true" (b = TRUE) or "false" (b = FALSE) up to the case of its
\* ASCII letters
SpellsBool(s, b) ==
    LET word == IF b THEN str_true ELSE str_false
    IN /\ Len(s) = Len(word)
       /\ \A i \in 1..Len(s) : s[i] = word[i] \/ s[i] = word[i] - 32

RepeatedKeys == UNION {[1..k -> ApiKeys] : k \in 1..MaxKeys}

\* {"k1":1,"k2":2,...}
MemberText(ks) ==
    <<LBRACE>>
    \o Flatten([i \in 1..Len(ks) |->
            (IF i > 1 THEN <<COMMA>> ELSE <<>>)
            \o <<DQUOTE>> \o ks[i] \o <<DQUOTE, COLON, ZERO + i>>])
    \o <<RBRACE>>

MemberTexts == {MemberText(ks) : ks \in RepeatedKeys}

InitMap == Init \/ InitFrom(MemberTexts, {})

SpecMap == InitMap /\ [][Next]_vars

\* the step is the call accumulate(out'.key, out'.res) on the object
AccumulateCalled ==
    /\ src = "object"
    /\ out'.fn = "accumulate"
    /\ calls' = Append(calls, MapCall("accumulate", out'.key, out'.res))

\* what one accumulate(key, value) makes of the map before into the map after
AccumulateEffect(before, after, key, value) ==
    /\ DOMAIN after = (DOMAIN before) \cup {key}
    /\ \A k \in (DOMAIN before) \ {key} : after[k] = before[k]
    /\ IF key \notin DOMAIN before
       THEN after[key] = value /\ map_len(after) = map_len(before) + 1
       ELSE /\ map_len(after) = map_len(before)
            /\ after[key] = IF before[key].t = "Array"
                            THEN VArray(before[key].list \o <<value>>)
                            ELSE VArray(<<before[key], value>>)

\* the indices of the calls made on the key
CallsOn(key) == {i \in 1..Len(calls) : calls[i].key = key}

\* the values of the calls made on the key, in call order
RECURSIVE ValuesOn(_, _)
ValuesOn(key, n) ==
    IF n = 0 THEN <<>>
    ELSE IF calls[n].key = key THEN Append(ValuesOn(key, n - 1), calls[n].value)
    ELSE ValuesOn(key, n - 1)

\* every call on the key accumulated a value that is no array, twice at least
OnlyAccumulated(key) ==
    /\ Cardinality(CallsOn(key)) >= 2
    /\ \A i \in CallsOn(key) : calls[i].op = "accumulate" /\ calls[i].value.t # "Array"

\* C17: accumulate(key, value) inserts when the key is absent (len grows by
\* one), appends to the array the key maps to, and otherwise replaces the
\* mapped value p by [p, value] (len unchanged both times); every other key
\* keeps its value.  After n >= 2 accumulates of non-array values on a fresh
\* key the key maps to the array of those values in call order.
C17_Accumulate ==
    /\ [][AccumulateCalled =>
            AccumulateEffect(tree.map, tree'.map, out'.key, out'.res)]_vars
    /\ [](src = "object" =>
            \A key \in ApiKeys :
                OnlyAccumulated(key) =>
                    get(tree.map, key) = Some(VArray(ValuesOn(key, Len(calls)))))

\* C17 witness: three accumulates on one fresh key have been made, and the
\* key maps to the three values in call order
C17_Witness ==
    /\ src = "object"
    /\ calls = <<MapCall("accumulate", Str(<<"a">>), VUint(1)),
                 MapCall("accumulate", Str(<<"a">>), VUint(2)),
                 MapCall("accumulate", Str(<<"a">>), VUint(1))>>
    /\ tree = VObject(insert(EmptyMap, Str(<<"a">>), VArray(<<VUint(1), VUint(2), VUint(1)>>)))

\* the last call made on the key (0 when none was)
LastCallOn(key) ==
    IF CallsOn(key) = {} THEN 0
    ELSE CHOOSE i \in CallsOn(key) : \A j \in CallsOn(key) : j <= i

\* the keys the calls leave in the object: those whose last call is no remove
KeysLeft == {key \in ApiKeys : LastCallOn(key) > 0 /\ calls[LastCallOn(key)].op # "remove"}

\* the last member of the key sequence ks that holds the key
LastMember(ks, key) == CHOOSE i \in 1..Len(ks) : ks[i] = key /\ \A j \in (i + 1)..Len(ks) : ks[j] # key

\* the object the member text of ks denotes when the last member of a key wins
LastWins(ks) ==
    VObject([key \in {ks[i] : i \in 1..Len(ks)} |-> VUint(LastMember(ks, key))])

\* C18: object map invariant.  After any calls of insert, remove and
\* accumulate on an empty object, len() is the number of keys the calls
\* leave in it, get(k) is the value of the insert when the last call on k is
\* an insert and nothing when it is a remove or k was never touched; and the
\* parse of an object text with repeated keys returns one entry per key,
\* holding the value of its last member.
C18_MapInvariant ==
    /\ src = "object" =>
        /\ DOMAIN tree.map = KeysLeft
        /\ map_len(tree.map) = Cardinality(KeysLeft)
        /\ \A key \in ApiKeys :
            \E last \in {LastCallOn(key)} :
                /\ (last > 0 /\ calls[last].op = "insert") =>
                        get(tree.map, key) = Some(calls[last].value)
                /\ (last = 0 \/ calls[last].op = "remove") =>
                        get(tree.map, key) = NoneValue
    /\ (src = "text" /\ ParseEnded) =>
        \A ks \in RepeatedKeys :
            text = MemberText(ks) => (mode = "done" /\ ret = LastWins(ks))

\* C18 witness: the text {"a":1,"b":2,"a":3} has been parsed into an object
\* of two entries, a holding 3
C18_Witness ==
    /\ src = "text" /\ mode = "done"
    /\ text = MemberText(<<Str(<<"a">>), Str(<<"b">>), Str(<<"a">>)>>)
    /\ map_len(ret.map) = 2
    /\ get(ret.map, Str(<<"a">>)) = Some(VUint(3))

(***************************************************************************)
(* Object bodies: '{', or '{' with the start of a first member, followed   *)
(* by at most MaxBody tokens out of the empty string, a digit, both member *)
(* separators, both name separators, '>' and '}'.                          *)
(***************************************************************************)
MaxBody == 4

BodyTokens ==
    {<<DQUOTE, DQUOTE>>, <<ZERO + 1>>, <<COLON>>, <<EQ>>, <<GT>>, <<COMMA>>, <<SEMI>>,
     <<RBRACE>>}

BodyPrefixes ==
    {<<LBRACE>>,
     <<LBRACE, DQUOTE, DQUOTE, COLON>>,
     <<LBRACE, DQUOTE, DQUOTE, COLON, ZERO + 1>>,
     <<LBRACE, DQUOTE, DQUOTE, COLON, ZERO + 1, SEMI>>}

InitBody ==
    \/ Init
    \/ \E b \in Builds, pre \in BodyPrefixes :
        \E k \in 0..MaxBody : \E x \in [1..k -> BodyTokens] :
            InitRun(b, "text", VNull, BuildConfig_default, pre \o Flatten(x))

SpecBody == InitBody /\ [][Next]_vars

\* the tokens of a body text: a pair of quotes is one token (the empty
\* string), every other character of the tokens is one; 0 stands for what
\* is no token
RECURSIVE BodyLex(_)
BodyLex(s) ==
    IF s = <<>> THEN <<>>
    ELSE IF Len(s) >= 2 /\ s[1] = DQUOTE /\ s[2] = DQUOTE
    THEN <<DQUOTE>> \o BodyLex(Slice(s, 2, Len(s)))
    ELSE IF <<s[1]>> \in BodyTokens THEN <<s[1]>> \o BodyLex(Tail(s))
    ELSE <<0>> \o BodyLex(Tail(s))

\* outcome of the grammar: "ok" with the index behind what was read and its
\* value, "SyntaxError" where the claim names that error, "error" where it
\* asks for an error without naming it
Read(st, behind, v) == [st |-> st, next |-> behind, v |-> v]

\* the index behind the literal that starts at token i: literals end before
\* a separator or a brace
RECURSIVE LiteralEnd(_, _)
LiteralEnd(ts, i) ==
    IF i > Len(ts) \/ ts[i] \in {COLON, EQ, COMMA, SEMI, RBRACE} THEN i
    ELSE LiteralEnd(ts, i + 1)

\* the number written with k digits 1
RECURSIVE Ones(_)
Ones(k) == IF k = 0 THEN 0 ELSE 10 * Ones(k - 1) + 1

\* the value at token i: the empty string, or the number a run of digits
\* writes; anything else is no value
ValueAt(ts, i) ==
    IF i > Len(ts) THEN Read("error", i, VNull)
    ELSE IF ts[i] = DQUOTE THEN Read("ok", i + 1, VString(<<>>))
    ELSE IF LiteralEnd(ts, i) > i /\ \A j \in i..(LiteralEnd(ts, i) - 1) : ts[j] = ZERO + 1
    THEN Read("ok", LiteralEnd(ts, i), VUint(Ones(LiteralEnd(ts, i) - i)))
    ELSE Read("error", i, VNull)

\* one or more pairs from token i on, m holding the pairs read before
RECURSIVE PairsAt(_, _, _)
PairsAt(ts, i, m) ==
    LET k == ValueAt(ts, i)
        arrow == IF k.next + 1 <= Len(ts) /\ ts[k.next + 1] = GT THEN 1 ELSE 0
        v == ValueAt(ts, k.next + 1 + arrow)
        pairs == [key \in (DOMAIN m) \cup {k.v.s} |-> IF key = k.v.s THEN v.v ELSE m[key]]
    IN IF k.st # "ok" THEN Read("error", i, VNull)
       ELSE IF k.v.t # "String" THEN Read("SyntaxError", i, VNull)
       ELSE IF k.next > Len(ts) THEN Read("error", i, VNull)
       ELSE IF ts[k.next] \notin {COLON, EQ} THEN Read("SyntaxError", i, VNull)
       ELSE IF v.st # "ok" THEN Read("error", i, VNull)
       ELSE IF v.next > Len(ts) THEN Read("error", i, VNull)
       ELSE IF ts[v.next] = RBRACE THEN Read("ok", v.next + 1, VObject(pairs))
       ELSE IF ts[v.next] \in {COMMA, SEMI} THEN PairsAt(ts, v.next + 1, pairs)
       ELSE Read("SyntaxError", i, VNull)

\* the object body behind '{'
BodyAt(ts) ==
    IF ts # <<>> /\ ts[1] = RBRACE THEN Read("ok", 2, VObject(EmptyMap))
    ELSE PairsAt(ts, 1, EmptyMap)

\* a body text has been handed to parse and the parse has ended
BodyEnded ==
    /\ src = "text" /\ ParseEnded /\ text # <<>> /\ text[1] = LBRACE
    /\ ~Contains(BodyLex(Tail(text)), 0)

\* C19: object body grammar.  Behind '{' a '}' gives the empty object;
\* otherwise one or more pairs follow, each a String key (a key of another
\* kind is SyntaxError), ':' or '=' (anything else is SyntaxError), an
\* optional '>' right behind it, and a value; behind a pair '}' ends the
\* object and ',' or ';' asks for another pair, so that a separator in
\* front of '}' and the name separator ":=" are errors.
C19_ObjectBody ==
    BodyEnded =>
        \E r \in {BodyAt(BodyLex(Tail(text)))} :
            /\ r.st = "ok" => (phase \in {"parsed", "end"} /\ ret = r.v)
            /\ r.st = "SyntaxError" => (mode = "err" /\ err = "SyntaxError")
            /\ r.st = "error" => mode = "err"

\* C19 witness: {"":>11} has been parsed, the '>' behind ':' skipped
C19_Witness ==
    /\ BodyEnded /\ phase \in {"parsed", "end"}
    /\ text = <<LBRACE, DQUOTE, DQUOTE, COLON, GT, ZERO + 1, ZERO + 1, RBRACE>>
    /\ ret = VObject(insert(EmptyMap, <<>>, VUint(11)))

(***************************************************************************)
(* Texts that end early: blanks and line comments only; strings cut before *)
(* their closing quote; containers cut behind a complete token.            *)
(***************************************************************************)
MaxPieces == 3

\* a blank, or a line comment with its end of line
BlankPieces ==
    {Str(<<" ">>), Str(<<"\t">>), Str(<<"\n">>), Str(<<"\r">>),
     Str(<<"#", "a", "\n">>), Str(<<"/", "/", "\"", "U+00E9", "\r">>)}

\* nothing, or a line comment that the end of the text ends
OpenComments ==
    {<<>>, Str(<<"#">>), Str(<<"/", "/">>), Str(<<"#", " ", "1", "U+00E9">>),
     Str(<<"/", "/", "[", "/", "*">>)}

BlankTexts ==
    {Flatten(x) \o c : x \in UNION {[1..k -> BlankPieces] : k \in 0..MaxPieces},
                       c \in OpenComments}

\* strings with their quotes, as sequences of characters
FullStrings ==
    {<<"\"", "a", "U+00E9", "'", "\\", "n", "\\", "\"", "\\", "\\", "\"">>,
     <<"'", "\"", "\\", "'", "\\", "/", "U+1F601", "'">>,
     <<"\"", "\\", "u", "0", "0", "4", "1", "\\", "u", "2", "0", "A", "C", "\"">>,
     <<"\"", "\\", "u", "D", "8", "3", "D", "\\", "u", "D", "E", "0", "1", "\"">>}

\* the text cut behind each of its characters but the last
CutsOf(s) == {Str(SubSeq(s, 1, k)) : k \in 1..(Len(s) - 1)}

CutStrings == UNION {CutsOf(s) : s \in FullStrings}

\* containers as sequences of tokens, each a sequence of characters
FullContainers ==
    {<<<<"{">>, <<"\"", "a", "\"">>, <<":">>, <<"1">>, <<",">>, <<" ">>,
       <<"'", "b", "'">>, <<"=">>, <<">">>, <<"[">>, <<"t", "r", "u", "e">>, <<";">>,
       <<"{">>, <<"}">>, <<"]">>, <<"}">>>>,
     <<<<"[">>, <<"[">>, <<"]">>, <<",">>, <<"-", "1", ".", "5">>, <<",">>,
       <<"{">>, <<"\"", "\"">>, <<":">>, <<"n", "u", "l", "l">>, <<"}">>, <<";">>, <<"\n">>,
       <<"0", "x", "1", "A">>, <<"]">>>>,
     <<<<"[">>, <<",">>, <<"#", "\n">>, <<"\"", "]", "\"">>, <<"]">>>>}

\* the container cut behind each of its tokens but the last
TokenCutsOf(ts) == {Str(Flatten(SubSeq(ts, 1, k))) : k \in 1..(Len(ts) - 1)}

CutContainers == UNION {TokenCutsOf(ts) : ts \in FullContainers}

InitEof == Init \/ InitFrom(BlankTexts \cup CutStrings \cup CutContainers, {})

SpecEof == InitEof /\ [][Next]_vars

\* C20: EndOfInput mapping.  parse fails with EOF when the text holds blanks
\* and line comments only (the empty text included), when it ends inside a
\* quoted string before the closing quote (directly behind a backslash
\* included), and when it ends inside an object or array behind a complete
\* token.
C20_EndOfInput ==
    (src = "text" /\ ParseEnded
        /\ text \in BlankTexts \cup CutStrings \cup CutContainers) =>
        (mode = "err" /\ err = "EOF")

(***************************************************************************)
(* Texts with gaps: the tokens of a container with at most MaxGaps of the  *)
(* gaps before, between and behind them filled by a blank, a comment, an   *)
(* unterminated block comment or a lone '/'.                               *)
(***************************************************************************)
MaxGaps == 2

GapFillers ==
    {Str(<<" ", "\t">>), Str(<<"\n", "\r">>),
     Str(<<"#", "U+00E9", "\n">>), Str(<<"/", "/", "*", "\r">>),
     Str(<<"/", "*", "*", "/">>), Str(<<"/", "*", "/", "*", "\n", "#", "*", "/">>),
     Str(<<"/">>), Str(<<"/", "*", "/">>)}

\* the tokens of a container and the value they denote
GapBases ==
    {[tokens |-> <<Str(<<"[">>), Str(<<"1">>), Str(<<",">>), Str(<<"\"", "a", "\"">>),
                   Str(<<"]">>)>>,
      v |-> VArray(<<VUint(1), VString(Str(<<"a">>))>>)],
     [tokens |-> <<Str(<<"{">>), Str(<<"'", "k", "'">>), Str(<<"=", ">">>),
                   Str(<<"t", "R", "u", "e">>), Str(<<"}">>)>>,
      v |-> VObject(insert(EmptyMap, Str(<<"k">>), VBool(TRUE)))]}

\* the tokens with the gaps of the set S filled as f says
GapText(tokens, S, f) ==
    Flatten([i \in 1..(Len(tokens) + 1) |->
        (IF i \in S THEN f[i] ELSE <<>>)
        \o (IF i <= Len(tokens) THEN tokens[i] ELSE <<>>)])

\* the sets of at most MaxGaps gaps of the tokens
GapSets(tokens) ==
    {T \in SUBSET (1..(Len(tokens) + 1)) : Cardinality(T) <= MaxGaps}

InitGaps ==
    \/ Init
    \/ \E b \in GapBases : \E S \in GapSets(b.tokens) : \E f \in [S -> GapFillers] :
            InitFrom({GapText(b.tokens, S, f)}, {})

SpecGaps == InitGaps /\ [][Next]_vars

\* the index behind the line that holds index p of s (0-based)
RECURSIVE LineEnd(_, _)
LineEnd(s, p) ==
    IF p >= Len(s) THEN Len(s)
    ELSE IF s[p + 1] \in {CR, LF} THEN p + 1
    ELSE LineEnd(s, p + 1)

\* the index of the first "*/" at or behind index p of s, -1 when none is
RECURSIVE CommentEnd(_, _)
CommentEnd(s, p) ==
    IF p + 2 > Len(s) THEN -1
    ELSE IF s[p + 1] = STAR /\ s[p + 2] = SLASH THEN p
    ELSE CommentEnd(s, p + 1)

\* the clean character at or behind index p of s, as the claim words it
RECURSIVE CleanAt(_, _)
CleanAt(s, p) ==
    IF p >= Len(s) THEN CharRes("EOF", p, 0)
    ELSE IF s[p + 1] \in {TAB, SPACE, LF, CR} THEN CleanAt(s, p + 1)
    ELSE IF s[p + 1] = HASH THEN CleanAt(s, LineEnd(s, p + 1))
    ELSE IF s[p + 1] = SLASH /\ p + 2 <= Len(s) /\ s[p + 2] = SLASH
    THEN CleanAt(s, LineEnd(s, p + 2))
    ELSE IF s[p + 1] = SLASH /\ p + 2 <= Len(s) /\ s[p + 2] = STAR
    THEN IF CommentEnd(s, p + 2) < 0 THEN CharRes("SyntaxError", p + 2, 0)
         ELSE CleanAt(s, CommentEnd(s, p + 2) + 2)
    ELSE CharRes("ok", p + 1, s[p + 1])

\* the text without its blanks and terminated comments; quoted strings are
\* kept as they are, and so is everything from an unterminated block
\* comment or a lone '/' on
RECURSIVE Cleaned(_, _)
Cleaned(s, p) ==
    LET c == CleanAt(s, p)
        close == IF c.st = "ok" /\ c.c \in {DQUOTE, SQUOTE}
                 THEN index_of_any(s, {c.c}, c.pos) ELSE None
    IN IF c.st # "ok" THEN <<>>
       ELSE IF c.c = SLASH THEN Slice(s, c.pos - 1, Len(s))
       ELSE IF close # None
       THEN Slice(s, c.pos - 1, close + 1) \o Cleaned(s, close + 1)
       ELSE <<c.c>> \o Cleaned(s, c.pos)

\* the tokenizer is about to ask for the next clean character at pos
AtClean ==
    /\ src = "text" /\ phase = "parse"
    /\ mode \in {"value", "frame"} \/ (mode = "ret" /\ stack # <<>>)
    /\ ~(mode = "ret" /\ Top.kind = "object" /\ Top.st = "key" /\ ret.t # "String")

\* C21: skip-clean.  Wherever the tokenizer asks for the next clean
\* character it skips tab, space, newline and CR, '#' and '//' comments to
\* the end of their line or of the input, and block comments to their first
\* "*/"; an unterminated block comment gives SyntaxError and a '/' that
\* starts no comment is returned as '/'.  So a text whose tokens are
\* separated by blanks and terminated comments parses to the value of the
\* tokens alone.
C21_SkipClean ==
    /\ AtClean => next_clean_internal(pos) = CleanAt(bytes, pos)
    /\ (src = "text" /\ ParseEnded) =>
            \A b \in GapBases :
                Cleaned(text, 0) = Flatten(b.tokens) =>
                    (phase \in {"parsed", "end"} /\ ret = b.v)

\* C21 witness: [1/**/,//*<CR>"a"] has been parsed to [1, "a"]
C21_Witness ==
    /\ src = "text" /\ phase = "parsed"
    /\ text = Str(<<"[", "1", "/", "*", "*", "/", ",", "/", "/", "*", "\r", "\"", "a", "\"", "]">>)
    /\ ret = VArray(<<VUint(1), VString(Str(<<"a">>))>>)

(***************************************************************************)
(* Texts with a tail: a complete value followed by at most MaxTail more    *)
(* characters, well formed or not.                                         *)
(***************************************************************************)
MaxTail == 2

\* the characters that end a literal (read_literal, next_to_internal)
LiteralEnds == LiteralExcluded \cup {CR, LF}

\* the first character of a tail
TailAlphabet == LiteralEnds \cup {DQUOTE, SQUOTE, STAR, LOWER_U, 233}

\* the characters behind the first
TailRest == {DQUOTE, SQUOTE, BACKSLASH, STAR, SLASH, RBRACE, SPACE, LF, LOWER_U, 233}

\* the tails as code points
TailPoints ==
    UNION {{x \in [1..k -> TailAlphabet] : \A i \in 2..k : x[i] \in TailRest} :
           k \in 0..MaxTail}

\* texts that end with the closing quote or bracket of their value, and
\* the value parse gives for them
ClosedBases ==
    {[t |-> Str(<<"\"", "\"">>), v |-> VString(<<>>)],
     [t |-> Str(<<"'", "a", "\\", "n", "\"", "'">>), v |-> VString(Str(<<"a", "\n", "\"">>))],
     [t |-> Str(<<"\"", "\\", "u", "0", "0", "4", "1", "\"">>), v |-> VString(Str(<<"A">>))],
     [t |-> Str(<<"{", "}">>), v |-> VObject(EmptyMap)],
     [t |-> Str(<<"{", "'", "k", "'", ":", "[", "1", "]", "}">>),
      v |-> VObject(insert(EmptyMap, Str(<<"k">>), VArray(<<VUint(1)>>)))],
     [t |-> Str(<<"[", "]">>), v |-> VArray(<<>>)],
     [t |-> Str(<<" ", "[", "{", "}", ";", "n", "u", "l", "l", "#", "\n", "]">>),
      v |-> VArray(<<VObject(EmptyMap), VNull>>)]}

\* literals and the value parse gives for them
LiteralBases ==
    {[t |-> Str(<<"t", "R", "u", "e">>), v |-> VBool(TRUE)],
     [t |-> Str(<<"n", "u", "l", "l">>), v |-> VNull],
     [t |-> Str(<<"-", "5">>), v |-> VInt(-5)],
     [t |-> Str(<<"0", "x", "1", "A">>), v |-> VUint(26)]}

\* the text t followed by the tail x
Tailed(t, x) == t \o Flatten([i \in 1..Len(x) |-> Utf8Encode(x[i])])

InitTail ==
    \/ Init
    \/ \E x \in TailPoints :
            \/ \E b \in ClosedBases : InitFrom({Tailed(b.t, x)}, {})
            \/ \E b \in LiteralBases :
                    /\ x # <<>> => x[1] \in LiteralEnds
                    /\ InitFrom({Tailed(b.t, x)}, {})

SpecTail == InitTail /\ [][Next]_vars

\* the text is the text t alone or followed by a tail
TailOf(t) == StartsWith(text, t)

\* the text is the literal t alone or followed by a tail that begins with
\* a character that ends a literal
LiteralTailOf(t) ==
    /\ StartsWith(text, t)
    /\ Len(text) > Len(t) => text[Len(t) + 1] \in LiteralEnds

\* C22: trailing content is ignored.  When parse gives v for a text that
\* ends with the closing quote, '}' or ']' of its value, it gives v for
\* that text followed by any tail; when it gives v for a literal, it gives
\* v for the literal followed by any tail that begins with a character
\* that ends a literal.
C22_TrailingIgnored ==
    (src = "text" /\ ParseEnded) =>
        /\ \A b \in ClosedBases :
                TailOf(b.t) => (phase \in {"parsed", "end"} /\ ret = b.v)
        /\ \A b \in LiteralBases :
                LiteralTailOf(b.t) => (phase \in {"parsed", "end"} /\ ret = b.v)

\* C22 witness: {'k':[1]}"\ has been parsed to {"k": [1]}
C22_Witness ==
    /\ src = "text" /\ phase = "parsed"
    /\ text = Str(<<"{", "'", "k", "'", ":", "[", "1", "]", "}", "\"", "\\">>)
    /\ ret = VObject(insert(EmptyMap, Str(<<"k">>), VArray(<<VUint(1)>>)))

(***************************************************************************)
(* Strings to escape: at most MaxString characters, among them the seven   *)
(* that replace_escape replaces, the single quote, '/', a letter that      *)
(* names an escape, a control character that is not replaced and a         *)
(* character of four bytes.                                                *)
(***************************************************************************)
MaxString == 3

StringAlphabet ==
    {BACKSLASH, DQUOTE, FF, TAB, LF, BS, CR, SQUOTE, SLASH, 110, 1, 128513}

InitString ==
    \/ Init
    \/ \E k \in 0..MaxString : \E x \in [1..k -> StringAlphabet] :
            InitFrom({}, {VString(Flatten([i \in 1..k |-> Utf8Encode(x[i])]))})

SpecString == InitString /\ [][Next]_vars

\* the replaced characters and the second character of their replacement
Escaped ==
    {<<BACKSLASH, BACKSLASH>>, <<DQUOTE, DQUOTE>>, <<FF, 102>>, <<TAB, 116>>,
     <<LF, 110>>, <<BS, 98>>, <<CR, 114>>}

\* the text the claim words for the string s
RECURSIVE EscapedText(_)
EscapedText(s) ==
    IF s = <<>> THEN <<>>
    ELSE (IF \E e \in Escaped : e[1] = Head(s)
          THEN <<BACKSLASH, (CHOOSE e \in Escaped : e[1] = Head(s))[2]>>
          ELSE <<Head(s)>>)
         \o EscapedText(Tail(s))

\* C23: escape codec round trip.  The rendering of a string s is a double
\* quote, s with exactly backslash, double quote, form feed, tab, newline,
\* backspace and CR replaced by their two-character sequences and all else
\* unchanged, and a double quote; parsing that text gives String(s).
C23_EscapeRoundTrip ==
    (src = "tree" /\ tree.t = "String" /\ phase # "tree") =>
        /\ text = <<DQUOTE>> \o EscapedText(tree.s) \o <<DQUOTE>>
        /\ ParseEnded => (phase \in {"parsed", "end"} /\ ret = tree)

\* C23 witness: the string of a backslash, the letter n and a newline has
\* been rendered as "\\n\n" and parsed back
C23_Witness ==
    /\ src = "tree" /\ phase = "parsed"
    /\ tree = VString(<<BACKSLASH, 110, LF>>)
    /\ text = <<DQUOTE, BACKSLASH, BACKSLASH, 110, BACKSLASH, 110, DQUOTE>>
    /\ ret = tree

(***************************************************************************)
(* Objects handed to the getters: the empty object and the objects with    *)
(* one of the values of the accessors under the key "a", alone or beside   *)
(* a member "b".                                                           *)
(***************************************************************************)
LookupObjects ==
    {VObject(EmptyMap)}
    \cup {VObject(insert(EmptyMap, Str(<<"a">>), v)) : v \in ValueInputs}
    \cup {VObject(insert(insert(EmptyMap, Str(<<"a">>), v), Str(<<"b">>), VBool(TRUE))) :
            v \in ValueInputs}

InitGet == Init \/ InitIndexed(LookupObjects, ExampleArrays)

SpecGet == InitGet /\ [][Next]_vars

\* the getter fn has just been called with the key out.key, which maps to
\* a value of one of the variants ts (or "" for a key that is absent)
Looked(fn, ts) ==
    /\ src = "lookup" /\ out.fn = fn
    /\ (IF out.key \in DOMAIN tree.map THEN tree.map[out.key].t ELSE "") \in ts

\* the shapes of a Result<Option<T>>
IsErr(r, kind) == ~r.ok /\ r.err = kind

IsNone(r) == r.ok /\ ~r.val.some

IsSome(r, x) == r.ok /\ r.val.some /\ r.val.val = x

\* C24: get_bool(key) looks the key up and coerces: NotFound when the key
\* is absent, Ok(None) when it maps to Null, and the stored boolean when it
\* maps to a Bool.
C24_GetBool ==
    /\ Looked("get_bool", {""}) => IsErr(out.res, "NotFound")
    /\ Looked("get_bool", {"Null"}) => IsNone(out.res)
    /\ Looked("get_bool", {"Bool"}) => IsSome(out.res, tree.map[out.key].b)

\* y is the integer x cast to the type of kind and width w: the value of
\* the type that differs from x by a multiple of 2^w
Truncates(y, x, kind, w) ==
    IF w \in {8, 16}
    THEN /\ (y - x) % Pow2(w) = 0
         /\ IF kind = "i" THEN y >= 0 - Pow2(w - 1) /\ y < Pow2(w - 1)
            ELSE y >= 0 /\ y < Pow2(w)
    ELSE y = (IF kind = "u" /\ x < 0 THEN Wrapped(w, x) ELSE x)

\* the integer stored under the key of the last call
StoredInt ==
    LET v == tree.map[out.key] IN IF v.t = "Int" THEN v.i ELSE v.u

\* C25: integer getters.  get_i8 .. get_i128 and get_u8 .. get_u128 give
\* Err(NotFound) for an absent key, Ok(None) for a stored Null,
\* Ok(Some(x)) with x the stored Int or Uint cast to the target by
\* truncation, and Err(CastError) for every other variant; the object is
\* left as it was.
C25_IntegerGetters ==
    /\ [](/\ Looked("get", {""}) => IsErr(out.res, "NotFound")
          /\ Looked("get", {"Null"}) => IsNone(out.res)
          /\ Looked("get", {"Int", "Uint"}) =>
                /\ out.res.ok /\ out.res.val.some
                /\ Truncates(out.res.val.val, StoredInt, out.kind, out.w)
          /\ Looked("get", {"Bool", "Float", "String", "Object", "Array"}) =>
                IsErr(out.res, "CastError"))
    /\ [][src = "lookup" => tree' = tree]_vars

\* C25 witness: get_u8 has given 44 for a stored 300
C25_Witness ==
    /\ Looked("get", {"Uint"}) /\ StoredInt = 300
    /\ out.kind = "u" /\ out.w = 8 /\ IsSome(out.res, 44)

(***************************************************************************)
(* Arrays handed to the indexed operations: every array of at most         *)
(* MaxList of the values.                                                  *)
(***************************************************************************)
IndexedArrays ==
    UNION {{VArray(l) : l \in [1..k -> ArrayValues]} : k \in 0..MaxList}

InitIndex == Init \/ InitIndexed(ExampleLookups, IndexedArrays)

SpecIndex == InitIndex /\ [][Next]_vars

\* the step is the call fn on the array (a call always changes out, the
\* array or the mode, but for one repeated unchanged)
ArrayCall(fn) == src = "array" /\ out'.fn = fn /\ <<tree, out, mode>>' # <<tree, out, mode>>

\* the list before and after the step
Before == tree.list

After == tree'.list

\* C26: array index contract.  push(v) puts v at index len; insert(v, i)
\* with i <= len puts v at index i and moves the elements from i on one
\* place right, and panics when i > len; remove(i) with i < len returns
\* the element at i and moves the elements behind it one place left, and
\* with i >= len returns None and leaves the array as it was; get(i) is
\* None and is_null(i) is false when i >= len.
C26_ArrayIndex ==
    [][/\ ArrayCall("push") =>
            /\ Len(After) = Len(Before) + 1
            /\ After[Len(Before) + 1] = out'.res
            /\ \A j \in 1..Len(Before) : After[j] = Before[j]
       /\ (ArrayCall("insert") /\ out'.n <= Len(Before)) =>
            /\ mode' = "idle"
            /\ Len(After) = Len(Before) + 1
            /\ After[out'.n + 1] = out'.res
            /\ \A j \in 1..out'.n : After[j] = Before[j]
            /\ \A j \in (out'.n + 1)..Len(Before) : After[j + 1] = Before[j]
       /\ (ArrayCall("insert") /\ out'.n > Len(Before)) => mode' = "panic"
       /\ (ArrayCall("remove") /\ out'.n < Len(Before)) =>
            /\ out'.res = Some(Before[out'.n + 1])
            /\ Len(After) = Len(Before) - 1
            /\ \A j \in 1..out'.n : After[j] = Before[j]
            /\ \A j \in (out'.n + 2)..Len(Before) : After[j - 1] = Before[j]
       /\ (ArrayCall("remove") /\ out'.n >= Len(Before)) =>
            out'.res = NoneValue /\ After = Before
       /\ (ArrayCall("get") /\ out'.n >= Len(Before)) => out'.res = NoneValue
       /\ (ArrayCall("get") /\ out'.n < Len(Before)) =>
            out'.res = Some(Before[out'.n + 1]) /\ After = Before
       /\ (ArrayCall("is_null") /\ out'.n >= Len(Before)) => out'.res = FALSE
       /\ (ArrayCall("is_null") /\ out'.n < Len(Before)) =>
            out'.res = (Before[out'.n + 1] = VNull) /\ After = Before]_vars

\* C26 witness: insert(2, 1) on [null, 1] has given [null, 2, 1]
C26_Witness ==
    /\ src = "array" /\ mode = "idle"
    /\ out.fn = "insert" /\ out.n = 1 /\ out.res = VUint(2)
    /\ tree.list = <<VNull, VUint(2), VUint(1)>>

(***************************************************************************)
(* Trees to lay out: leaves, containers of at most MaxFan leaves, and      *)
(* containers that hold one of those containers, alone or behind a leaf.   *)
(***************************************************************************)
MaxFan == 2

LayoutLeaves ==
    {from_unsigned(2), from_str(<<SPACE, DQUOTE, LF>>), VArray(<<>>), VObject(EmptyMap)}

LayoutKeys == <<Str(<<"a">>), <<SPACE, COLON>>, Str(<<"c">>), Str(<<"d">>)>>

LayoutContainers ==
    {VArray(l) : l \in UNION {[1..k -> LayoutLeaves] : k \in 0..MaxFan}}
    \cup {VObject(m) :
            m \in UNION {[K -> LayoutLeaves] : K \in SUBSET {LayoutKeys[i] : i \in 1..MaxFan}}}

LayoutTrees ==
    LayoutLeaves \cup LayoutContainers
    \cup {VArray(<<c>>) : c \in LayoutContainers}
    \cup {VArray(<<from_unsigned(2), c>>) : c \in LayoutContainers}
    \cup {VObject(insert(EmptyMap, LayoutKeys[1], c)) : c \in LayoutContainers}

InitLayout == Init \/ InitFrom({}, LayoutTrees)

SpecLayout == InitLayout /\ [][Next]_vars

\* the texts of the elements, each behind its newline and indents when
\* pretty is set, with a ',' behind every one but the last
Separated(elements, level, c) ==
    Flatten([i \in 1..Len(elements) |->
        (IF c.pretty THEN <<LF>> \o Indents(c.indent, level + 1) ELSE <<>>)
        \o elements[i]
        \o (IF i < Len(elements) THEN <<COMMA>> ELSE <<>>)])

\* the elements between the brackets, the closing one behind its newline
\* and indents when pretty is set
Bracketed(open, elements, close, level, c) ==
    <<open>> \o Separated(elements, level, c)
    \o (IF c.pretty THEN <<LF>> \o Indents(c.indent, level) ELSE <<>>)
    \o <<close>>

\* the sequences that take their i-th element from the i-th set
Choices(sets) ==
    {f \in [1..Len(sets) -> UNION {sets[i] : i \in 1..Len(sets)}] :
        \A i \in 1..Len(sets) : f[i] \in sets[i]}

\* the layouts of the value v at nesting level `level`, one for every
\* iteration order of the objects in it
RECURSIVE Layouts(_, _, _)
Layouts(v, level, c) ==
    IF v.t = "Array"
    THEN {Bracketed(LBRACKET, e, RBRACKET, level, c) :
            e \in Choices([i \in 1..Len(v.list) |-> Layouts(v.list[i], level + 1, c)])}
    ELSE IF v.t = "Object"
    THEN UNION {
            {Bracketed(LBRACE, e, RBRACE, level, c) :
                e \in Choices([i \in 1..Len(o) |->
                        {<<DQUOTE>> \o replace_escape(o[i]) \o <<DQUOTE, COLON>>
                         \o (IF c.pretty THEN <<SPACE>> ELSE <<>>) \o x :
                            x \in Layouts(v.map[o[i]], level + 1, c)}])} :
            o \in Orders(DOMAIN v.map)}
    ELSE {r.s : r \in build_value(v, level, c)}

\* the characters of s outside its quoted strings (from index p on; quoted
\* says whether index p lies in a string)
RECURSIVE Outside(_, _, _)
Outside(s, p, quoted) ==
    IF p > Len(s) THEN <<>>
    ELSE IF quoted /\ s[p] = BACKSLASH THEN Outside(s, p + 2, TRUE)
    ELSE IF s[p] = DQUOTE THEN Outside(s, p + 1, ~quoted)
    ELSE IF quoted THEN Outside(s, p + 1, TRUE)
    ELSE <<s[p]>> \o Outside(s, p + 1, FALSE)

\* C27: builder layout.  The rendering of a value is one of its layouts:
\* a container at level L holds its elements in iteration order with a ','
\* behind every element but the last; when pretty is set every element
\* follows a newline and L+1 indents and the closing bracket a newline and
\* L indents; when pretty is not set the text has no newline, indent or
\* space outside its strings.
C27_BuilderLayout ==
    (src = "tree" /\ phase # "tree") =>
        /\ text \in Layouts(tree, 0, cfg)
        /\ ~cfg.pretty =>
                \A i \in DOMAIN Outside(text, 1, FALSE) :
                    Outside(text, 1, FALSE)[i] \notin {LF, CR, SPACE, TAB, PIPE}

\* C27 witness: the pretty rendering of [2, [2]] is
\* [ | 2, | [ | | 2 | ] ] with a newline before every indent and bracket
C27_Witness ==
    /\ src = "tree" /\ phase = "text" /\ cfg = BuildConfig_pretty
    /\ tree = VArray(<<VUint(2), VArray(<<VUint(2)>>)>>)
    /\ text = <<LBRACKET, LF, PIPE, SPACE, 50, COMMA,
                LF, PIPE, SPACE, LBRACKET,
                LF, PIPE, SPACE, PIPE, SPACE, 50,
                LF, PIPE, SPACE, RBRACKET,
                LF, RBRACKET>>

(***************************************************************************)
(* Rendering through the converters, as BuildConfig documents them.        *)
(***************************************************************************)
\* the texts of the elements with the ',' between them converted
HookSeparated(elements, level, c) ==
    Flatten([i \in 1..Len(elements) |->
        (IF c.pretty THEN <<LF>> \o Indents(c.indent, level + 1) ELSE <<>>)
        \o elements[i]
        \o (IF i < Len(elements) THEN control_converter(c, COMMA) ELSE <<>>)])

HookBracketed(open, elements, close, level, c) ==
    control_converter(c, open) \o HookSeparated(elements, level, c)
    \o (IF c.pretty THEN <<LF>> \o Indents(c.indent, level) ELSE <<>>)
    \o control_converter(c, close)

\* the renderings of v with every punctuation character passed through
\* the control converter, every key through the key converter and every
\* scalar's text through the value converter
RECURSIVE Hooked(_, _, _)
Hooked(v, level, c) ==
    IF v.t = "Array"
    THEN {HookBracketed(LBRACKET, e, RBRACKET, level, c) :
            e \in Choices([i \in 1..Len(v.list) |-> Hooked(v.list[i], level + 1, c)])}
    ELSE IF v.t = "Object"
    THEN UNION {
            {HookBracketed(LBRACE, e, RBRACE, level, c) :
                e \in Choices([i \in 1..Len(o) |->
                        {control_converter(c, DQUOTE)
                         \o key_converter(c, replace_escape(o[i]))
                         \o control_converter(c, DQUOTE) \o control_converter(c, COLON)
                         \o (IF c.pretty THEN <<SPACE>> ELSE <<>>) \o x :
                            x \in Hooked(v.map[o[i]], level + 1, c)}])} :
            o \in Orders(DOMAIN v.map)}
    ELSE IF v.t = "String"
    THEN {control_converter(c, DQUOTE) \o value_converter(c, v, replace_escape(v.s))
          \o control_converter(c, DQUOTE)}
    ELSE {value_converter(c, v, Slice(r.s, 0, Len(r.s))) : r \in build_value(v, level, c)}

\* C28: converter hooks.  The rendering of a value under a configuration
\* is its text with every structural punctuation character passed through
\* the control-character converter of the configuration, every key through
\* its key converter and every scalar's text through its value-text
\* converter: plain JSON under the default configuration, the wrapped text
\* under a colorizing one.
C28_ConverterHooks ==
    (src = "tree" /\ phase # "tree") => text \in Hooked(tree, 0, cfg)

(***************************************************************************)
(* Quoted texts: an opening quote followed by at most MaxQuoted characters *)
(* of both quotes, the characters that start a comment, the backslash, a   *)
(* newline and two letters; and some texts with a CR and with characters   *)
(* of more than one byte.                                                  *)
(***************************************************************************)
MaxQuoted == 4

QuotedAlphabet == {DQUOTE, SQUOTE, HASH, SLASH, STAR, BACKSLASH, LF, 116, LOWER_X}

QuotedExamples ==
    {Str(<<"'", "a", "\r", "'">>),
     Str(<<"\"", "U+00E9", "\\", "U+00E9", "\"">>),
     Str(<<"\"", "U+00E9", "/", "*", "\\", "r", "U+00E9", "'", "\"">>),
     Str(<<"'", "\\", "b", "\\", "f", "\\", "n", "\\", "r", "\\", "/", "'">>)}

InitQuoted ==
    \/ Init
    \/ InitFrom(QuotedExamples, {})
    \/ InitTextOver(<<DQUOTE>>, QuotedAlphabet, MaxQuoted)
    \/ InitTextOver(<<SQUOTE>>, QuotedAlphabet, MaxQuoted)

SpecQuoted == InitQuoted /\ [][Next]_vars

\* the characters that may follow a backslash (but for u) and what they
\* stand for
Decoded ==
    {<<116, TAB>>, <<98, BS>>, <<110, LF>>, <<114, CR>>, <<102, FF>>,
     <<SQUOTE, SQUOTE>>, <<DQUOTE, DQUOTE>>, <<BACKSLASH, BACKSLASH>>, <<SLASH, SLASH>>}

\* the string that starts behind the opening quote q, read from index p of
\* s on, with acc read so far: its content, SyntaxError, or what the claim
\* leaves open (the end of the text, a \u escape)
RECURSIVE Scanned(_, _, _, _)
Scanned(s, p, q, acc) ==
    IF p > Len(s) THEN [st |-> "open", val |-> <<>>]
    ELSE IF s[p] = q THEN [st |-> "ok", val |-> acc]
    ELSE IF s[p] \in {LF, CR} THEN [st |-> "SyntaxError", val |-> <<>>]
    ELSE IF s[p] # BACKSLASH THEN Scanned(s, p + 1, q, Append(acc, s[p]))
    ELSE IF p + 1 > Len(s) \/ s[p + 1] = LOWER_U THEN [st |-> "open", val |-> <<>>]
    ELSE IF \E d \in Decoded : d[1] = s[p + 1]
    THEN Scanned(s, p + 2, q, Append(acc, (CHOOSE d \in Decoded : d[1] = s[p + 1])[2]))
    ELSE [st |-> "SyntaxError", val |-> <<>>]

\* C29: string scanning is raw.  A quoted string ends at the first
\* unescaped occurrence of its opening quote; the other quote, '#', "//"
\* and "/*" inside it are content; a raw newline or CR gives SyntaxError,
\* and so does a backslash followed by a character other than
\* t b n r f ' " \ / u; the value is the runs between the escapes and the
\* decoded escapes in the order of the text.
C29_RawString ==
    (src = "text" /\ text # <<>> /\ text[1] \in {DQUOTE, SQUOTE} /\ ParseEnded) =>
        /\ Scanned(text, 2, text[1], <<>>).st = "ok" =>
                /\ phase \in {"parsed", "end"}
                /\ ret = VString(Scanned(text, 2, text[1], <<>>).val)
        /\ Scanned(text, 2, text[1], <<>>).st = "SyntaxError" =>
                mode = "err" /\ err = "SyntaxError"

\* C29 witness: '"\t' has been parsed to the string of a double quote and
\* a tab
C29_Witness ==
    /\ src = "text" /\ phase = "parsed"
    /\ text = <<SQUOTE, DQUOTE, BACKSLASH, 116, SQUOTE>>
    /\ ret = VString(<<DQUOTE, TAB>>)

(***************************************************************************)
(* Runs that are never left unfinished: the program is sequential, so a    *)
(* step that can be taken is taken.  The texts are all those of at most    *)
(* MaxLive characters of brackets, separators, a quote, the characters of  *)
(* comments, a digit, a newline and a two-byte character.                  *)
(***************************************************************************)
MaxLive == 4

LiveAlphabet ==
    {LBRACKET, RBRACKET, LBRACE, RBRACE, DQUOTE, COLON, COMMA, SLASH, STAR, HASH, LF,
     49, 233}

InitLive == Init \/ InitTextOver(<<>>, LiveAlphabet, MaxLive)

\* the steps of the tokenizer
Tokenize ==
    \/ Parse
    \/ NextValue
    \/ ReadObjectStart
    \/ ReadObjectKey
    \/ ReadObjectValue
    \/ ReadArrayLoop
    \/ ReadArrayElement
    \/ ParseOk

SpecLive == InitLive /\ [][Next]_vars /\ WF_vars(Tokenize)

\* next_value has returned Ok: to parse, or to the read_object or
\* read_array that called it
ReturnedOk == phase = "parse" /\ mode = "ret"

\* the tokenizer has stopped: parse has its result, or no step of the
\* tokenizer is left to take
Stopped == phase \in {"parsed", "end"} \/ (phase = "parse" /\ mode \notin {"value", "frame", "ret"})

\* the call of next_value that parse made has returned, Ok or Err
Returned == phase \in {"parsed", "end"} \/ mode = "err"

\* C30: termination and progress of the tokenizer.  A tokenizer that has
\* stopped has returned from the next_value that parse called (every
\* iteration of its loops returns or moves the cursor forward), and
\* whenever a next_value returns Ok the cursor is greater than it was on
\* entry and at most len.
C30_Termination ==
    /\ ReturnedOk => (pos > entry /\ pos <= len)
    /\ Stopped => Returned

====
